---- MODULE Spec2Model ----
(***************************************************************************)
(* Tree Life Simulation: the fixed-timestep scheduler (animationLoop), the *)
(* per-substep biological update (updateBiology), the hazard mortality     *)
(* model (applyMortalityModel), the calendar (updateEnvironmentTime), the  *)
(* seeded PRNG and the UI controls that act on them.                       *)
(*                                                                         *)
(* Numbers.  JavaScript doubles are modelled as fixed-point integers with  *)
(* six decimals ("micro" units: 1.0 is 1000000).  Simulated time is        *)
(* counted in ticks of one substep (substepTime = 1/60 day), so dt = 1     *)
(* tick and x * dt is x / 60.  Scheduler time is counted in quarter        *)
(* substeps.  The PRNG keeps its full 32-bit state as two 16-bit limbs.    *)
(* Math.pow, Math.exp, Math.log, Math.sqrt and Math.cos are evaluated by   *)
(* tables and series with the rounding stated at each operator.            *)
(***************************************************************************)
EXTENDS Integers, Sequences, FiniteSets, TLC

(***************************************************************************)
(* Fixed-point arithmetic                                                  *)
(***************************************************************************)
Micro == 1000 * 1000

Abs(x) == IF x < 0 THEN -x ELSE x

Sgn(x) == IF x < 0 THEN -1 ELSE 1

Min(a, b) == IF a < b THEN a ELSE b

Max(a, b) == IF a > b THEN a ELSE b

\* x / n rounded toward zero (n > 0).
SDiv(x, n) == Sgn(x) * (Abs(x) \div n)

\* floor(a * b / 10^6) for a, b >= 0, computed in 3-digit limbs so that no
\* intermediate exceeds 31 bits.
Mul6(a, b) ==
  LET a1 == a \div 1000
      a0 == a % 1000
      b1 == b \div 1000
      b0 == b % 1000
  IN  a1 * b1 + ((a1 * b0 + a0 * b1 + ((a0 * b0) \div 1000)) \div 1000)

\* The product of two micro values, as a micro value, rounded toward zero.
SMul(a, b) == Sgn(a) * Sgn(b) * Mul6(Abs(a), Abs(b))

\* The quotient of two non-negative micro values (b > 0, a <= 2000 units), as
\* a micro value.
UDiv(a, b) == (a * 1000) \div Max(1, b \div 1000)

\* A plausible slip: the clamp forgets its upper bound.
clampWithoutUpper(value, lo, hi) == IF value < lo THEN lo ELSE value

\* js/prng.js clamp(value, min, max).
clamp(value, lo, hi) == Min(Max(value, lo), hi)

\* Piecewise-linear interpolation in a table of <<x, y>> knots (x ascending,
\* multiples of 0.01, at most 8 units apart).
RECURSIVE Interp(_, _, _)
Interp(table, i, x) ==
  IF i >= Len(table) THEN table[Len(table)][2]
  ELSE IF x <= table[i][1] THEN table[i][2]
  ELSE IF x < table[i + 1][1]
       THEN table[i][2]
            + SMul(table[i + 1][2] - table[i][2],
                   ((x - table[i][1]) * 100) \div ((table[i + 1][1] - table[i][1]) \div 10000))
       ELSE Interp(table, i + 1, x)

(***************************************************************************)
(* js/prng.js: linear congruential generator, state in [0, 2^32)           *)
(***************************************************************************)
Limb == 256 * 256

\* 1664525 = 25 * 65536 + 26125 and 1013904223 = 15470 * 65536 + 62303.
LcgMulHi == 25
LcgMulLo == 26125
LcgAddHi == 15470
LcgAddLo == 62303

\* initPRNG(seed) for -2^31 < seed < 2^31: prngState.seed = seed and
\* prngState.state = seed, the state as a sign and two 16-bit limbs of its
\* magnitude.
initPRNG(seed) ==
  [seed |-> seed, neg |-> seed < 0, hi |-> Abs(seed) \div Limb, lo |-> Abs(seed) % Limb]

\* applySeed: Math.abs(seedValue) % 2147483647.
SeedInRange(seedValue) == Abs(seedValue) % 2147483647

\* random(): state = (state * 1664525 + 1013904223) % 4294967296.
\* The remainder operator of JavaScript keeps the sign of the dividend: from a
\* negative state s the sum s * 1664525 + 1013904223 is 1013904223 - |s| * 1664525,
\* and below zero its remainder is minus the remainder of its magnitude.
PrngNextOfNegative(s) ==
  LET q0 == s.lo * LcgMulLo
      q1 == s.lo * LcgMulHi + s.hi * LcgMulLo + (q0 \div Limb)
      q2 == s.hi * LcgMulHi + (q1 \div Limb)
      lo == q0 % Limb
      hi == q1 % Limb
      fits == q2 = 0 /\ (hi < LcgAddHi \/ (hi = LcgAddHi /\ lo <= LcgAddLo))
      up0 == LcgAddLo - lo
      up1 == LcgAddHi - hi - (IF up0 < 0 THEN 1 ELSE 0)
      down0 == lo - LcgAddLo
      down1 == hi - LcgAddHi - (IF down0 < 0 THEN 1 ELSE 0)
  IN  IF fits THEN [s EXCEPT !.neg = FALSE, !.hi = up1 % Limb, !.lo = up0 % Limb]
      ELSE [s EXCEPT !.neg = (down1 % Limb # 0 \/ down0 % Limb # 0),
                     !.hi = down1 % Limb, !.lo = down0 % Limb]

PrngNext(s) ==
  LET p0 == s.lo * LcgMulLo + LcgAddLo
      p1 == s.lo * LcgMulHi + s.hi * LcgMulLo + LcgAddHi + (p0 \div Limb)
  IN  IF s.neg THEN PrngNextOfNegative(s)
      ELSE [s EXCEPT !.hi = p1 % Limb, !.lo = p0 % Limb]

\* The state after n further calls of random().
RECURSIVE PrngAdvance(_, _)
PrngAdvance(s, n) == IF n <= 0 THEN s ELSE PrngAdvance(PrngNext(s), n - 1)

\* A plausible slip: the death test compares with <= instead of <.
DrawAtMost(s, threshold) ==
  \/ s.neg
  \/ /\ s.hi < 32768
     /\ s.hi * Limb + s.lo <= threshold

\* random() < threshold / 2^32, for the state s that random() has just stored
\* (0 <= threshold < 2^31); a negative state gives a negative value.
DrawBelow(s, threshold) ==
  \/ s.neg
  \/ /\ s.hi < 32768
     /\ s.hi * Limb + s.lo < threshold

(***************************************************************************)
(* Time base                                                               *)
(***************************************************************************)
\* simulationState.substepTime = 1 / 60: ticks per unit of simulated time.
TicksPerDay == 60

\* CONFIG.DAYS_PER_YEAR
DAYS_PER_YEAR == 365

TicksPerYear == DAYS_PER_YEAR * TicksPerDay

\* animationLoop: const maxSubsteps = 10.
maxSubsteps == 10

\* The scheduler's clock is counted in quarters of a substep.
SubstepQuarters == 4

(***************************************************************************)
(* js/environment.js: CONFIG, SEASONS, TREE_SPECIES                        *)
(***************************************************************************)
TREE_INIT_HEIGHT == 250000
TREE_INIT_DBH == 800000
TREE_MAX_HEIGHT == 40
TREE_MAX_AGE == 600
HEIGHT_GROWTH_FACTOR == 900000
DBH_GROWTH_FACTOR == 180000
ROOT_GROWTH_FACTOR == 1300000
CO2_ABSORPTION_RATE == 18000
O2_PRODUCTION_RATE == 24000
MAX_HISTORY == 600
PARTICLE_FALLING_LEAVES == 60

\* Keys that applyMortalityModel reads from CONFIG and that the CONFIG literal
\* does not set; the values follow the design text (fire thresholds stricter
\* than the drought and heat thresholds of tree.mortality).
FIRE_DROUGHT_THRESHOLD == 150000
FIRE_HEAT_THRESHOLD == 35
WINDTHROW_WIND_THRESHOLD == 60
WINDTHROW_WIND_RANGE == 40

Seasons == {"Spring", "Summer", "Autumn", "Winter"}

SpeciesNames == {"OAK", "MAPLE", "PINE", "BIRCH"}

\* TREE_SPECIES: maxHeight (m), maxAge (years), growthRate (micro), evergreen.
\* A plausible slip: a species whose height limit is below the height of a
\* tree that can be switched to it.
TREE_SPECIESDwarfBirch(name) ==
  CASE name = "MAPLE" -> [maxHeight |-> 30, maxAge |-> 300, growthRate |-> 900000, evergreen |-> FALSE]
    [] name = "PINE"  -> [maxHeight |-> 40, maxAge |-> 400, growthRate |-> 600000, evergreen |-> TRUE]
    [] name = "BIRCH" -> [maxHeight |-> 1, maxAge |-> 100, growthRate |-> 1200000, evergreen |-> FALSE]
    [] OTHER          -> [maxHeight |-> 35, maxAge |-> 500, growthRate |-> 750000, evergreen |-> FALSE]

TREE_SPECIES(name) ==
  CASE name = "MAPLE" -> [maxHeight |-> 30, maxAge |-> 300, growthRate |-> 900000, evergreen |-> FALSE]
    [] name = "PINE"  -> [maxHeight |-> 40, maxAge |-> 400, growthRate |-> 600000, evergreen |-> TRUE]
    [] name = "BIRCH" -> [maxHeight |-> 25, maxAge |-> 100, growthRate |-> 1200000, evergreen |-> FALSE]
    [] OTHER          -> [maxHeight |-> 35, maxAge |-> 500, growthRate |-> 750000, evergreen |-> FALSE]

(***************************************************************************)
(* js/environment.js: calendar                                             *)
(***************************************************************************)
\* The season updateEnvironmentTime assigns to a day of the year (in ticks).
SeasonOf(dayOfYear) ==
  IF dayOfYear < 90 * TicksPerDay THEN "Spring"
  ELSE IF dayOfYear < 180 * TicksPerDay THEN "Summer"
  ELSE IF dayOfYear < 270 * TicksPerDay THEN "Autumn"
  ELSE "Winter"

\* updateEnvironmentTime(dt), dt in ticks.
updateEnvironmentTime(e, dt) ==
  LET d0 == e.dayOfYear + dt
      wrap == d0 >= DAYS_PER_YEAR * TicksPerDay
      d1 == IF wrap THEN d0 - DAYS_PER_YEAR * TicksPerDay ELSE d0
  IN  [e EXCEPT !.dayOfYear = d1,
                !.year = IF wrap THEN @ + 1 ELSE @,
                !.season = SeasonOf(d1)]

\* getSeasonProgress(dayOfYear): seasonLength = 365 / 4 days = 5475 ticks;
\* the result is a micro value (1000000 / 5475 = 40000 / 219).
getSeasonProgress(dayOfYear) ==
  LET seasonLength == (DAYS_PER_YEAR * TicksPerDay) \div 4
      seasonStart == (dayOfYear \div seasonLength) * seasonLength
  IN  ((dayOfYear - seasonStart) * 40000) \div 219

\* The property key JavaScript derives from a season used as a computed key:
\* every SEASONS entry is an object, and String(object) is "[object Object]".
PropertyKey(season) == IF season \in Seasons THEN "[object Object]" ELSE season

\* The object literal { [SEASONS.SPRING]: 1.0, [SEASONS.SUMMER]: 0.95,
\* [SEASONS.AUTUMN]: 0.4, [SEASONS.WINTER]: 0.05 }: a later entry with the same
\* key replaces an earlier one.
RECURSIVE Lookup(_, _, _)
Lookup(entries, i, key) ==
  IF i = 0 THEN 0
  ELSE IF entries[i][1] = key THEN entries[i][2]
  ELSE Lookup(entries, i - 1, key)

\* getSeasonalGrowthMultiplier(season): multipliers[season] || 0.5.
getSeasonalGrowthMultiplier(season) ==
  LET multipliers == << <<PropertyKey("Spring"), 1000000>>,
                        <<PropertyKey("Summer"), 950000>>,
                        <<PropertyKey("Autumn"), 400000>>,
                        <<PropertyKey("Winter"), 50000>> >>
      found == Lookup(multipliers, Len(multipliers), PropertyKey(season))
  IN  IF found = 0 THEN 500000 ELSE found

(***************************************************************************)
(* Elementary functions                                                    *)
(***************************************************************************)
\* 2^(r/10) for r = 0..9, rounded to six decimals.
Pow2Tenths == <<1000000, 1071773, 1148698, 1231144, 1319508,
                1414214, 1515717, 1624505, 1741101, 1866066>>

RECURSIVE TwoTo(_)
TwoTo(n) == IF n <= 0 THEN 1 ELSE 2 * TwoTo(n - 1)

\* Math.pow(2, (temperature - 20) / 10) for an integer temperature.
Q10Factor(temperature) ==
  LET q == (temperature - 20) \div 10
      r == (temperature - 20) % 10
  IN  IF q >= 0 THEN Pow2Tenths[r + 1] * TwoTo(q)
      ELSE Pow2Tenths[r + 1] \div TwoTo(-q)

\* Math.pow(height, 0.8), height in metres (micro), by interpolation.
PowHeight08(h) ==
  Interp(<< <<0, 0>>, <<100000, 158489>>, <<250000, 329877>>, <<500000, 574349>>,
            <<1000000, 1000000>>, <<2000000, 1741101>>, <<3000000, 2408225>>,
            <<5000000, 3623898>>, <<8000000, 5278032>>, <<12000000, 7300372>>,
            <<18000000, 10097596>>, <<25000000, 13132639>>, <<32000000, 16000000>>,
            <<40000000, 19127050>> >>, 1, h)

\* Math.pow(progress, 1.5) on [0, 1], by interpolation.
PowProgress15(x) ==
  Interp(<< <<0, 0>>, <<10000, 1000>>, <<50000, 11180>>, <<100000, 31623>>,
            <<200000, 89443>>, <<300000, 164317>>, <<400000, 252982>>,
            <<500000, 353553>>, <<600000, 464758>>, <<700000, 585662>>,
            <<800000, 715542>>, <<900000, 853815>>, <<1000000, 1000000>> >>, 1, x)

\* Math.pow(progress, 0.7) on [0, 1], by interpolation.
PowProgress07(x) ==
  Interp(<< <<0, 0>>, <<10000, 39811>>, <<50000, 122823>>, <<100000, 199526>>,
            <<200000, 324131>>, <<300000, 430512>>, <<400000, 526553>>,
            <<500000, 615572>>, <<600000, 699368>>, <<700000, 779056>>,
            <<800000, 855388>>, <<900000, 928902>>, <<1000000, 1000000>> >>, 1, x)

\* Math.sqrt(-2 * Math.log(u)) at the midpoint of each sixteenth of (0, 1).
GaussRadius == <<2632769, 2175833, 1926810, 1743460, 1592803, 1461397, 1342227, 1231004,
                 1124742, 1021075, 917838, 812701, 702652, 582922, 443712, 251987>>

\* Math.cos(2 * Math.PI * u) at the midpoint of each sixteenth of [0, 1).
GaussCos == <<980785, 831470, 555570, 195090, -195090, -555570, -831470, -980785,
              -980785, -831470, -555570, -195090, 195090, 555570, 831470, 980785>>

\* randomNormal(mean = 0, stdDev = 1): u1 = random(), u2 = random(),
\* z0 = sqrt(-2 log u1) cos(2 pi u2).  u1 = 0 gives log(0) = -Infinity and
\* z0 = +Infinity or -Infinity by the sign of the cosine.
randomNormal(p) ==
  LET s1 == PrngNext(p)
      s2 == PrngNext(s1)
      c == GaussCos[(s2.hi \div 4096) + 1]
  IN  [prng |-> s2,
       infinite |-> (s1.hi = 0 /\ s1.lo = 0),
       sign |-> Sgn(c),
       z |-> SMul(GaussRadius[(s1.hi \div 4096) + 1], c)]

\* randomGaussian(mean, stdDev): alias of randomNormal.
randomGaussian(p) == randomNormal(p)

(***************************************************************************)
(* Physiology                                                              *)
(***************************************************************************)
\* calculatePhotosynthesis(sunlight, water, soilQuality), percent inputs.
calculatePhotosynthesis(sunlight, water, soilQuality) ==
  LET lightFactor == sunlight * 10000
      waterFactor == Min(Micro, water * 20000)
      nutrientFactor == soilQuality * 10000
  IN  SMul(SMul(lightFactor, waterFactor), nutrientFactor)

\* calculateTotalStress()
calculateTotalStress(e) ==
  LET waterStress == IF e.water < 40 THEN (40 - e.water) * 750000
                     ELSE IF e.water > 85 THEN ((e.water - 85) * 4 * Micro) \div 3
                     ELSE 0
      tempStress == IF e.temperature < 5 \/ e.temperature > 35 THEN 20 * Micro
                    ELSE IF e.temperature < 12 \/ e.temperature > 28 THEN 10 * Micro
                    ELSE 0
      lightStress == IF e.sunlight < 30 THEN (30 - e.sunlight) * 500000 ELSE 0
      stressors == (IF e.disease THEN 25 * Micro ELSE 0) + (IF e.pests THEN 20 * Micro ELSE 0)
                   + (IF e.storm THEN 15 * Micro ELSE 0) + (IF e.pollution THEN 10 * Micro ELSE 0)
  IN  Min(100 * Micro, waterStress + tempStress + lightStress + stressors)

\* calculateEvapotranspiration()
calculateEvapotranspiration(e) ==
  LET tempFactor == Max(0, (e.temperature * Micro) \div 30)
      windFactor == e.windSpeed * 10000
      humidityFactor == Micro - e.humidity * 10000
  IN  SMul(SMul(tempFactor, Micro + windFactor), humidityFactor) \div 2

(***************************************************************************)
(* applyMortalityModel                                                     *)
(***************************************************************************)
\* The condition of the windthrow hazard and of the Windthrow death cause.
WindthrowRisk(e) == e.storm /\ e.windSpeed > WINDTHROW_WIND_THRESHOLD

\* The condition of the fire hazard and of the Fire death cause.
FireRisk(e) ==
  /\ clamp(e.water * 10000, 0, Micro) < FIRE_DROUGHT_THRESHOLD
  /\ e.temperature > FIRE_HEAT_THRESHOLD

\* The annual hazard (micro per year) of a living tree below its maximum age.
hazardPerYear(t, e) ==
  LET m == t.mortality
      base == Max(0, m.baseRatePerYear)
      senStart == m.senescenceStartAge * TicksPerYear
      span == (m.maxAge - m.senescenceStartAge) * TicksPerYear
      tt == IF span <= 0 THEN Micro
            ELSE Min(Micro, (((t.age - senStart) * 100) \div (span \div 100)) * 100)
      senescence == IF t.age > senStart THEN SMul(20000, SMul(tt, tt)) ELSE 0
      stress01 == clamp(t.stressLevel \div 100, 0, Micro)
      chronic == SMul(30000, SMul(stress01, stress01))
      water01 == clamp(e.water * 10000, 0, Micro)
      drought == IF water01 < m.droughtThreshold
                 THEN SMul(40000, UDiv(m.droughtThreshold - water01, m.droughtThreshold))
                 ELSE 0
      heat == IF e.temperature > m.heatStressTemp
              THEN SMul(30000, clamp((e.temperature - m.heatStressTemp) * 50000, 0, 2 * Micro))
              ELSE 0
      health01 == clamp(t.health \div 100, 0, Micro)
      disease == IF e.disease THEN SMul(m.diseaseBaseRatePerYear, Micro - health01) ELSE 0
      wind01 == clamp(e.windSpeed * 10000, 0, Micro)
      storm == IF e.storm THEN SMul(SMul(m.stormFrequency, 20000), wind01) ELSE 0
      species == TREE_SPECIES(t.species)
      fireResistance == 500000
      fire == IF FireRisk(e)
              THEN SMul(SMul(SMul(50000, UDiv(FIRE_DROUGHT_THRESHOLD - water01, FIRE_DROUGHT_THRESHOLD)),
                             clamp((e.temperature - FIRE_HEAT_THRESHOLD) * 50000, 0, Micro)),
                        Micro - fireResistance)
              ELSE 0
      windthrowResistance == 500000
      windthrow == IF WindthrowRisk(e)
                   THEN SMul(SMul(SMul(60000,
                                       clamp(((e.windSpeed - WINDTHROW_WIND_THRESHOLD) * Micro)
                                               \div WINDTHROW_WIND_RANGE, 0, Micro)),
                                  clamp(t.height \div species.maxHeight, 0, Micro)),
                             Micro - windthrowResistance)
                   ELSE 0
  IN  clamp(base + senescence + chronic + drought + heat + disease + storm + fire + windthrow,
            0, 5 * Micro)

\* pDie * 2^32 with pDie = 1 - Math.exp(-hazardPerYear * dtYears) for dt of one
\* tick, by the series x - x^2 / 2 (x <= 5 / 21900; the next term is below
\* 2^-32).  2^32 / 21900 = 196117.
DeathThreshold(hazard) ==
  LET first == Mul6(hazard, 196117)
  IN  first - (Mul6(first, hazard) \div 43800)

\* A plausible slip: the fire test comes before the windthrow test.
DeathCauseFireFirst(t, e) ==
  IF FireRisk(e) THEN "Fire"
  ELSE IF WindthrowRisk(e) THEN "Windthrow"
  ELSE IF e.disease THEN "Disease"
  ELSE IF t.age > t.mortality.senescenceStartAge * TicksPerYear THEN "Old age"
  ELSE "Mortality event"

\* The cause recorded when the sampled death test succeeds.
DeathCauseOf(t, e) ==
  IF WindthrowRisk(e) THEN "Windthrow"
  ELSE IF FireRisk(e) THEN "Fire"
  ELSE IF e.disease THEN "Disease"
  ELSE IF t.age > t.mortality.senescenceStartAge * TicksPerYear THEN "Old age"
  ELSE "Mortality event"

\* A plausible slip: the hard cap compares with > instead of >=.
MaxAgeExceeded(t) == t.age > t.mortality.maxAge * TicksPerYear

\* The hard cap: age >= m.maxAge.
MaxAgeReached(t) == t.age >= t.mortality.maxAge * TicksPerYear

\* A plausible slip: the switch tree.mortality.enabled is not consulted.
applyMortalityModelAlways(t, e, p) ==
  IF t.health <= 0 THEN [tree |-> t, prng |-> p]
  ELSE IF MaxAgeReached(t)
       THEN [tree |-> [t EXCEPT !.health = 0, !.deathCause = "Old age"], prng |-> p]
  ELSE LET drawn == PrngNext(p)
       IN  IF DrawBelow(drawn, DeathThreshold(hazardPerYear(t, e)))
           THEN [tree |-> [t EXCEPT !.health = 0, !.deathCause = DeathCauseOf(t, e)],
                 prng |-> drawn]
           ELSE [tree |-> t, prng |-> drawn]

\* applyMortalityModel(dtDays) for dt of one tick: the tree and the PRNG
\* state it leaves.
applyMortalityModel(t, e, p) ==
  IF t.health <= 0 THEN [tree |-> t, prng |-> p]
  ELSE IF ~t.mortality.enabled THEN [tree |-> t, prng |-> p]
  ELSE IF MaxAgeReached(t)
       THEN [tree |-> [t EXCEPT !.health = 0, !.deathCause = "Old age"], prng |-> p]
  ELSE LET drawn == PrngNext(p)
       IN  IF DrawBelow(drawn, DeathThreshold(hazardPerYear(t, e)))
           THEN [tree |-> [t EXCEPT !.health = 0, !.deathCause = DeathCauseOf(t, e)],
                 prng |-> drawn]
           ELSE [tree |-> t, prng |-> drawn]

(***************************************************************************)
(* Falling-leaf particles (js/tree.js)                                     *)
(***************************************************************************)
\* The value random() returns for the stored state s, as a micro value
\* (the top 16 bits of the state; 1000000 / 65536 = 15625 / 1024).
UnitOf(s) == (IF s.neg THEN -1 ELSE 1) * ((s.hi * 15625) \div 1024)

\* updateLeafDrops(dt, windSpeed) for dt of one tick.  A particle keeps its
\* height y (thousandths of a pixel), fall speed vy (micro) and lifetime (ticks); its
\* horizontal motion, rotation and opacity decide nothing and are left out.
updateLeafDrops(leafDrops) ==
  LET moved(leaf) ==
        LET vy == Min(leaf.vy + 833, 2 * Micro)
        IN  [y |-> leaf.y + (vy \div TicksPerDay) \div 1000, vy |-> vy,
             lifetime |-> leaf.lifetime - 1]
      kept(leaf) == ~(leaf.lifetime <= 0 \/ leaf.y > 1000 * 1000)
  IN  SelectSeq([i \in 1..Len(leafDrops) |-> moved(leafDrops[i])], kept)

\* createFallingLeaf(x, y, season): ten values are drawn (vx, vy, rotation,
\* rotationSpeed, size, color, lifetime, wobblePhase, wobbleSpeed,
\* wobbleAmount) unless the particle budget is used up.
createFallingLeaf(leafDrops, p, y) ==
  IF Len(leafDrops) >= PARTICLE_FALLING_LEAVES THEN [leafDrops |-> leafDrops, prng |-> p]
  ELSE LET vyDraw == PrngAdvance(p, 2)
           lifeDraw == PrngAdvance(p, 7)
       IN  [leafDrops |-> Append(leafDrops,
                                 [y |-> y,
                                  vy |-> 300000 + SMul(UnitOf(vyDraw), 900000),
                                  lifetime |-> 200 * TicksPerDay
                                               + (UnitOf(lifeDraw) * 12 + 999) \div 1000]),
            prng |-> PrngAdvance(p, 10)]

\* handleLeafDrop(dt): one value is always drawn for the test; a drop draws
\* the angle, the radius and the height offset, then creates the particle.
handleLeafDrop(t, e, p) ==
  LET seasonProgress == getSeasonProgress(e.dayOfYear)
      autumn == IF e.season = "Autumn" THEN SMul(SMul(seasonProgress, seasonProgress), 800000) ELSE 0
      stressed == IF t.stressLevel > 50 * Micro
                  THEN SMul((t.stressLevel - 50 * Micro) \div 100, 300000) ELSE 0
      stormy == IF e.storm /\ e.windSpeed > 50 THEN 400000 ELSE 0
      dropProbability == autumn + stressed + stormy
      test == PrngNext(p)
      offsetDraw == PrngAdvance(test, 3)
      treeTop == 850 * 1000 - t.height \div 10
      leafY == treeTop + t.crownHeight \div 20 + (SMul(UnitOf(offsetDraw), 60000) - 30000)
  IN  IF DrawBelow(test, Mul6(dropProbability, 10737418)) /\ t.foliageOpacity > 100000
      THEN createFallingLeaf(t.leafDrops, offsetDraw, leafY)
      ELSE [leafDrops |-> t.leafDrops, prng |-> test]

(***************************************************************************)
(* updateFoliage, updateBiomass                                            *)
(***************************************************************************)
\* updateFoliage(dt)
updateFoliage(t, e) ==
  LET base == t.health \div 100
      species == TREE_SPECIES(t.species)
      isEvergreen == species.evergreen
      seasonProgress == getSeasonProgress(e.dayOfYear)
      dropRate == 500000
      autumnFade == Micro - SMul(PowProgress15(seasonProgress), Micro - SMul(dropRate, 300000))
      leafOutRate == IF isEvergreen THEN 800000 ELSE 300000
      springGrowth == SMul(PowProgress07(seasonProgress), Micro - leafOutRate) + leafOutRate
      seasonalOpacity ==
        CASE e.season = "Winter" -> SMul(base, IF isEvergreen THEN 700000 ELSE 50000)
          [] e.season = "Autumn" -> SMul(base, IF isEvergreen THEN 800000 ELSE autumnFade)
          [] e.season = "Spring" -> SMul(base, springGrowth)
          [] OTHER -> base
      targetDensity ==
        CASE e.season = "Winter" -> SMul(base, IF isEvergreen THEN 800000 ELSE 100000)
          [] e.season = "Autumn" -> SMul(base, IF isEvergreen THEN 850000 ELSE autumnFade)
          [] e.season = "Spring" -> SMul(base, 400000 + SMul(springGrowth, 600000))
          [] e.season = "Summer" -> Min(Micro, SMul(base, 1100000))
          [] OTHER -> base
      targetOpacity ==
        IF t.stressLevel > 40 * Micro
        THEN SMul(seasonalOpacity, Micro - (t.stressLevel - 40 * Micro) \div 120)
        ELSE seasonalOpacity
  IN  [t EXCEPT !.foliageOpacity = clamp(@ + SMul(targetOpacity - @, 80000), 0, Micro),
                !.foliageDensity = clamp(@ + SMul(targetDensity - @, 60000), 0, Micro)]

\* The allocation ratios of updateBiomass for a season (micro).
Allocation(season) ==
  IF season = "Spring"
  THEN [trunk |-> 250000, branches |-> 200000, leaves |-> 400000, roots |-> 200000]
  ELSE IF season = "Autumn"
  THEN [trunk |-> 350000, branches |-> 200000, leaves |-> 100000, roots |-> 350000]
  ELSE [trunk |-> 350000, branches |-> 200000, leaves |-> 250000, roots |-> 200000]

\* A plausible slip: the total leaves the roots out.
BiomassSumWithoutRoots(b) == b.trunk + b.branches + b.leaves

\* tree.biomass.total = trunk + branches + leaves + roots.
BiomassSum(b) == b.trunk + b.branches + b.leaves + b.roots

\* updateBiomass(dt, growthFactor) for dt of one tick.
updateBiomass(t, e, growthFactor) ==
  IF growthFactor <= 0 THEN t
  ELSE LET healthFactor == t.health \div 100
           perDay == SMul(growthFactor, healthFactor)
           alloc == Allocation(e.season)
           trunk == t.biomass.trunk + SMul(perDay, alloc.trunk * 10) \div TicksPerDay
           branches == t.biomass.branches + SMul(perDay, alloc.branches * 5) \div TicksPerDay
           leaves == t.biomass.leaves
                     + SMul(SMul(perDay, alloc.leaves * 2), t.foliageOpacity) \div TicksPerDay
           roots == t.biomass.roots + SMul(perDay, alloc.roots * 3) \div TicksPerDay
           old == t.age > 10 * TicksPerYear
           heartwood == IF old THEN t.biomass.heartwood + (t.biomass.sapwood \div 1000) \div TicksPerDay
                        ELSE t.biomass.heartwood
           sapwood == IF old THEN trunk - heartwood ELSE trunk
           grown == [trunk |-> trunk, branches |-> branches, leaves |-> leaves, roots |-> roots,
                     heartwood |-> heartwood, sapwood |-> sapwood, total |-> 0]
       IN  [t EXCEPT !.biomass = [grown EXCEPT !.total = BiomassSum(grown)]]

(***************************************************************************)
(* updateBiology                                                           *)
(***************************************************************************)
\* A plausible slip: the dormancy check without its winter clause.
IsDormantWithoutWinter(t, e) ==
  LET evergreen == TREE_SPECIES(t.species).evergreen
  IN  \/ e.temperature < (IF evergreen THEN -10 ELSE 5)
      \/ (~evergreen /\ e.season = "Autumn" /\ getSeasonProgress(e.dayOfYear) > 700000)

\* The dormancy check of updateBiology.
IsDormant(t, e) ==
  LET evergreen == TREE_SPECIES(t.species).evergreen
  IN  \/ (~evergreen /\ e.season = "Winter")
      \/ e.temperature < (IF evergreen THEN -10 ELSE 5)
      \/ (~evergreen /\ e.season = "Autumn" /\ getSeasonProgress(e.dayOfYear) > 700000)

\* netGrowthFactor = isDormant ? 0 : max(0, (netCarbon * 0.8 - stress * 0.3) * seasonGrowth)
NetGrowthFactor(t, e) ==
  LET photoRate == calculatePhotosynthesis(e.sunlight, e.water, e.soilQuality)
      respirationRate == SMul(SMul(20000, Q10Factor(e.temperature)), t.biomass.total \div 100)
      netCarbon == photoRate - respirationRate
      stress == calculateTotalStress(e)
  IN  IF IsDormant(t, e) THEN 0
      ELSE Max(0, SMul(SMul(netCarbon, 800000) - SMul(stress, 300000),
                       getSeasonalGrowthMultiplier(e.season)))

\* The health dynamics: tree.health += healthDelta * dt + randomGaussian(0, 0.3) * dt,
\* then clamp(health, 0, 100).  g is the Gaussian draw.
HealthAfter(t, e, netGrowthFactor, g) ==
  LET photoRate == calculatePhotosynthesis(e.sunlight, e.water, e.soilQuality)
      stressImpact == calculateTotalStress(e) * 20
      recoveryRate == photoRate \div 2 + (100 * Micro - t.stressLevel) \div 10
      healthDelta == netGrowthFactor * 10 + recoveryRate \div 2 - stressImpact
  IN  IF g.infinite THEN clamp(g.sign * 2000 * Micro, 0, 100 * Micro)
      ELSE clamp(t.health + SDiv(healthDelta, TicksPerDay) + SDiv(g.z, 200), 0, 100 * Micro)

\* The vitality block: health, vigor, stress accumulation, disease progression.
Vitality(t, e, netGrowthFactor, g) ==
  LET health == HealthAfter(t, e, netGrowthFactor, g)
      vigor == clamp(SMul(t.vigor, 980000) + SMul(SMul(health, netGrowthFactor), 20000),
                     0, 100 * Micro)
      stressLevel == clamp(SMul(t.stressLevel, 950000) + calculateTotalStress(e) \div 2,
                           0, 100 * Micro)
      diseaseLoad == IF e.disease
                     THEN Min(100 * Micro, t.diseaseLoad + (100 * Micro - health) \div 3000)
                     ELSE Max(0, t.diseaseLoad - 8333)
  IN  [t EXCEPT !.health = health, !.vigor = vigor, !.stressLevel = stressLevel,
                !.diseaseLoad = diseaseLoad]

\* The physical growth block (height, dbh, crown, roots, leaf metrics); dbh is
\* kept in units of 10^-8 m.
PhysicalGrowth(t, e, netGrowthFactor) ==
  IF ~(t.health > 25 * Micro /\ ~t.dormant /\ netGrowthFactor > 0) THEN t
  ELSE LET species == TREE_SPECIES(t.species)
           healthFactor == t.health \div 100
           vigorFactor == t.vigor \div 100
           ageRatio == ((((t.age * 10) \div 219) * 25) \div species.maxAge) * 100
           ageFactor == Max(100000, Micro - ageRatio)
           growthRate == SMul(SMul(SMul(SMul(netGrowthFactor, healthFactor), vigorFactor),
                                   ageFactor), species.growthRate)
           heightLimit == species.maxHeight * Micro
           room == Micro - t.height \div species.maxHeight
           heightGrowth == SMul(SMul(growthRate, HEIGHT_GROWTH_FACTOR), SMul(room, room))
           height == Min(heightLimit, t.height + heightGrowth \div TicksPerDay)
           expectedDBH == PowHeight08(height) * 5
           dbhGrowth == SDiv(SMul(expectedDBH - t.dbh, growthRate), 10)
                        + SMul(growthRate, DBH_GROWTH_FACTOR) \div 20
           dbh == Max(t.dbh, t.dbh + SDiv(dbhGrowth, TicksPerDay))
           crownRadius == SMul(SMul(height, 400000), healthFactor)
           crownHeight == SMul(SMul(height, 500000), healthFactor)
           rootGrowth == SMul(SMul(SMul(growthRate, ROOT_GROWTH_FACTOR), e.soilQuality * 10000), 5000)
           rootDepth == Min(SMul(height, 800000), t.rootDepth + rootGrowth \div TicksPerDay)
           rootSpread == Min(SMul(crownRadius, 1500000),
                             t.rootSpread + SMul(rootGrowth, 800000) \div TicksPerDay)
           leafArea == SMul(SMul(SMul(SMul(crownRadius, crownRadius), 3141593), t.foliageOpacity),
                            healthFactor)
       IN  [t EXCEPT !.height = height,
                     !.growthThisYear = @ + heightGrowth \div TicksPerDay,
                     !.dbh = dbh,
                     !.crownRadius = crownRadius,
                     !.crownHeight = crownHeight,
                     !.rootDepth = rootDepth,
                     !.rootSpread = rootSpread,
                     !.leafArea = leafArea,
                     !.leafCount = leafArea \div 2000]

\* Gas exchange and water dynamics.
GasAndWater(t, e) ==
  LET photoRate == calculatePhotosynthesis(e.sunlight, e.water, e.soilQuality)
      effectiveLeafArea == SMul(t.leafArea, t.foliageOpacity)
      exchanged == SMul(photoRate, effectiveLeafArea)
      evapotranspiration == calculateEvapotranspiration(e)
      waterUptake == SMul(SMul(e.water * 10000, t.rootDepth), t.rootSpread) \div 2
      gas == IF t.dormant THEN t
             ELSE [t EXCEPT !.co2Absorbed = @ + SMul(exchanged, CO2_ABSORPTION_RATE) \div TicksPerYear,
                            !.o2Produced = @ + SMul(exchanged, O2_PRODUCTION_RATE) \div TicksPerYear,
                            !.carbonStored = t.biomass.total \div 2]
  IN  [gas EXCEPT !.waterContent = clamp(@ + SDiv(waterUptake - evapotranspiration, TicksPerDay),
                                         0, 100 * Micro),
                  !.waterTranspired = @ + evapotranspiration \div TicksPerDay]

\* Chlorophyll content.
Chlorophyll(t, e) ==
  LET progress == getSeasonProgress(e.dayOfYear)
  IN  IF TREE_SPECIES(t.species).evergreen
      THEN IF e.season = "Winter" THEN Max(50 * Micro, t.chlorophyllContent - 8333)
           ELSE Min(100 * Micro, t.chlorophyllContent + 33333)
      ELSE IF e.season = "Autumn" THEN Max(0, 100 * (Micro - progress))
      ELSE IF e.season = "Spring" THEN Min(100 * Micro, progress * 100)
      ELSE IF e.season = "Winter" THEN 0
      ELSE Min(100 * Micro, t.chlorophyllContent + 33333)

\* Age and annual cycles: the years are counted before and after the tick.
NewYear(t) ==
  LET prevYear == (t.daysSinceBirth - 1) \div TicksPerYear
      currentYear == (t.daysSinceBirth + 1) \div TicksPerYear
  IN  currentYear > prevYear

\* recordHealth()
recordHealth(history, t, frameCount) ==
  IF frameCount % 5 # 0 THEN history
  ELSE Append(IF Len(history) >= MAX_HISTORY THEN Tail(history) ELSE history,
              (t.health + 50000) \div 100000)

\* Age and annual cycles: age and daysSinceBirth advance by one tick; a new
\* year adds a growth ring and clears growthThisYear.
Birthday(t) ==
  LET ring == NewYear(t)
  IN  [t EXCEPT !.age = @ + 1,
                !.daysSinceBirth = @ + 1,
                !.ringsGrown = IF ring THEN @ + 1 ELSE @,
                !.growthThisYear = IF ring THEN 0 ELSE @]

\* Every fifth ring the visual structures are regenerated, which draws
\* regenDraws values.
AfterRegeneration(t, p, regenDraws) ==
  IF NewYear(t) /\ (t.ringsGrown + 1) % 5 = 0 THEN PrngAdvance(p, regenDraws) ELSE p

\* The end of updateBiology: the leaf physics and the health history, given
\* what handleLeafDrop returned.
AfterLeafDrop(history, e, t, drop, frameCount) ==
  LET fallen == [t EXCEPT !.leafDrops = updateLeafDrops(drop.leafDrops)]
  IN  [tree |-> fallen,
       environment |-> [e EXCEPT !.totalStress = calculateTotalStress(e),
                                 !.waterAvailability = e.water],
       prng |-> drop.prng,
       healthHistory |-> recordHealth(history, fallen, frameCount)]

\* The leaf drop of an aged tree t with generator state p.
LeafDropStage(history, e, t, p, frameCount) ==
  AfterLeafDrop(history, e, t, handleLeafDrop(t, e, p), frameCount)

\* The age and annual cycle of a tree t whose physiology has been updated.
AgeStage(history, e, t, p, frameCount, regenDraws) ==
  LeafDropStage(history, e, Birthday(t), AfterRegeneration(t, p, regenDraws), frameCount)

\* The chlorophyll content is set.
WithChlorophyll(t, e) == [t EXCEPT !.chlorophyllContent = Chlorophyll(t, e)]

\* Health to chlorophyll, in the order of the code, given the net growth
\* factor and the Gaussian draw g.
Physiology(t, e, netGrowthFactor, g) ==
  WithChlorophyll(
    GasAndWater(
      updateBiomass(
        PhysicalGrowth(updateFoliage(Vitality(t, e, netGrowthFactor, g), e),
                       e, netGrowthFactor),
        e, netGrowthFactor),
      e),
    e)

\* The update of a tree t that survived the mortality model, with its
\* dormancy flag set.
GrowthStage(history, e, t, netGrowthFactor, g, frameCount, regenDraws) ==
  AgeStage(history, e, Physiology(t, e, netGrowthFactor, g), g.prng, frameCount, regenDraws)

\* tree.dormant = isDormant
WithDormancy(t, e) == [t EXCEPT !.dormant = IsDormant(t, e)]

\* updateBiology after applyMortalityModel returned mm = [tree, prng].
AfterMortality(s, e, mm, frameCount, regenDraws) ==
  IF mm.tree.health <= 0
  THEN [s EXCEPT !.environment = e,
                 !.prng = mm.prng,
                 !.tree = [mm.tree EXCEPT !.leafDrops = updateLeafDrops(@)]]
  ELSE GrowthStage(s.healthHistory, e, WithDormancy(mm.tree, e),
                   NetGrowthFactor(WithDormancy(mm.tree, e), e),
                   randomGaussian(mm.prng), frameCount, regenDraws)

\* updateBiology after updateEnvironmentTime returned e.
AfterCalendar(s, e, frameCount, regenDraws) ==
  AfterMortality(s, e, applyMortalityModel(s.tree, e, s.prng), frameCount, regenDraws)

\* updateBiology(dt) below its first early return (the update of a tree that
\* is alive when the substep starts), for dt of one tick, on the program state
\* s = [tree, environment, prng, healthHistory].  regenDraws is the number of
\* values the regeneration of the visual structures draws when it runs.
LivingUpdate(s, frameCount, regenDraws) ==
  AfterCalendar(s, updateEnvironmentTime(s.environment, 1), frameCount, regenDraws)

\* The update a dead tree receives: the falling leaves only.
DeadUpdate(s) == [s EXCEPT !.tree.leafDrops = updateLeafDrops(@)]

\* A plausible slip: the early return for a dead tree is left out.
updateBiologyWithoutDeadReturn(s, frameCount, regenDraws) ==
  LivingUpdate(s, frameCount, regenDraws)

\* updateBiology(dt) for dt of one tick.
updateBiology(s, frameCount, regenDraws) ==
  IF s.tree.health <= 0 THEN DeadUpdate(s)
  ELSE LivingUpdate(s, frameCount, regenDraws)

(***************************************************************************)
(* js/tree.js: the tree object, initializeTree                             *)
(***************************************************************************)
\* tree.mortality as the tree object declares it.
DefaultMortality ==
  [enabled |-> FALSE, baseRatePerYear |-> 1000, senescenceStartAge |-> 150,
   maxAge |-> TREE_MAX_AGE, droughtThreshold |-> 300000, heatStressTemp |-> 35,
   diseaseBaseRatePerYear |-> 20000, stormFrequency |-> 50000]

\* The tree object literal (the fields the simulation reads or writes).
TreeObject ==
  [age |-> 0, daysSinceBirth |-> 0,
   height |-> 250000, dbh |-> 800000, crownRadius |-> 300000, crownHeight |-> 200000,
   rootDepth |-> 150000, rootSpread |-> 400000,
   leafCount |-> 50, leafArea |-> 100000, foliageOpacity |-> Micro, foliageDensity |-> Micro,
   chlorophyllContent |-> 100 * Micro,
   health |-> 100 * Micro, vigor |-> 100 * Micro, waterContent |-> 100 * Micro,
   stressLevel |-> 0, diseaseLoad |-> 0,
   biomass |-> [total |-> 500000, trunk |-> 300000, branches |-> 100000, leaves |-> 50000,
                roots |-> 50000, heartwood |-> 0, sapwood |-> 300000],
   co2Absorbed |-> 0, o2Produced |-> 0, waterTranspired |-> 0, carbonStored |-> 0,
   growthThisYear |-> 0, ringsGrown |-> 0,
   leafDrops |-> << >>,
   dormant |-> FALSE,
   species |-> "OAK",
   mortality |-> DefaultMortality,
   deathCause |-> "null"]

\* initializeTree(): the sapling state; species and mortality are kept.
initializeTree(t) ==
  [t EXCEPT !.age = 0, !.daysSinceBirth = 0,
            !.height = TREE_INIT_HEIGHT, !.dbh = TREE_INIT_DBH,
            !.crownRadius = SMul(TREE_INIT_HEIGHT, 600000),
            !.crownHeight = SMul(TREE_INIT_HEIGHT, 400000),
            !.rootDepth = SMul(TREE_INIT_HEIGHT, 300000),
            !.rootSpread = SMul(TREE_INIT_HEIGHT, 500000),
            !.leafCount = 50, !.leafArea = 100000,
            !.foliageOpacity = Micro, !.foliageDensity = Micro,
            !.chlorophyllContent = 100 * Micro,
            !.health = 100 * Micro, !.deathCause = "null",
            !.vigor = 100 * Micro, !.waterContent = 100 * Micro,
            !.stressLevel = 0, !.diseaseLoad = 0,
            !.biomass = [total |-> 500000, trunk |-> 300000, branches |-> 100000,
                         leaves |-> 50000, roots |-> 50000, heartwood |-> 0, sapwood |-> 300000],
            !.co2Absorbed = 0, !.o2Produced = 0, !.waterTranspired = 0, !.carbonStored = 0,
            !.growthThisYear = 0, !.ringsGrown = 0,
            !.dormant = FALSE,
            !.leafDrops = << >>]

(***************************************************************************)
(* js/environment.js: the environment object, updateEnvironmentFromUI      *)
(***************************************************************************)
\* The environment object literal; season holds the string 'SPRING' until
\* updateEnvironmentTime first runs.
EnvironmentObject ==
  [year |-> 0, dayOfYear |-> 0, season |-> "SPRING",
   sunlight |-> 70, water |-> 60, temperature |-> 20, soilQuality |-> 70,
   windSpeed |-> 30, humidity |-> 60,
   totalStress |-> 0, waterAvailability |-> 60,
   disease |-> FALSE, pests |-> FALSE, storm |-> FALSE, pollution |-> FALSE]

\* updateEnvironmentFromUI(): the sliders and checkboxes are copied.
updateEnvironmentFromUI(e, controls) ==
  [e EXCEPT !.sunlight = controls.sun, !.water = controls.water,
            !.temperature = controls.temp, !.soilQuality = controls.soil,
            !.windSpeed = controls.wind, !.humidity = controls.humidity,
            !.disease = controls.disease, !.pests = controls.pests,
            !.storm = controls.storm, !.pollution = controls.pollution]

(***************************************************************************)
(* animationLoop                                                           *)
(***************************************************************************)
\* A plausible slip: the loop condition without the substep bound.
SubstepDueWithoutBound(accumulator, n) == accumulator >= SubstepQuarters

\* The loop condition: physicsAccumulator >= substepTime && substeps < maxSubsteps.
SubstepDue(accumulator, n) == accumulator >= SubstepQuarters /\ n < maxSubsteps

\* A plausible slip: the accumulator is cleared instead of decremented.
ConsumeAll(accumulator) == 0

\* physicsAccumulator -= substepTime
Consume(accumulator) == accumulator - SubstepQuarters

\* The substep loop on w = [tree, environment, prng, healthHistory]: the
\* world, the accumulator and the count of substeps it leaves.
RECURSIVE Substeps(_, _, _, _, _, _)
Substeps(w, accumulator, n, controls, frameCount, regenDraws) ==
  IF SubstepDue(accumulator, n)
  THEN Substeps(updateBiology([w EXCEPT !.environment = updateEnvironmentFromUI(@, controls)],
                              frameCount, regenDraws),
                Consume(accumulator), n + 1, controls, frameCount, regenDraws)
  ELSE [world |-> w, physicsAccumulator |-> accumulator, substeps |-> n]

\* renderScene(): the drawing routines take their jitter from random(), the
\* generator the simulation uses; draws is how many values one frame takes.
renderScene(p, draws) == PrngAdvance(p, draws)

\* A plausible slip: simulationState.time advances outside the running check.
AfterSubstepsClockRuns(r, out, active, delta, renderDraws) ==
  [r EXCEPT !.tree = out.world.tree,
            !.environment = out.world.environment,
            !.prng = PrngAdvance(out.world.prng, renderDraws),
            !.healthHistory = out.world.healthHistory,
            !.simulationState = [@ EXCEPT !.physicsAccumulator = out.physicsAccumulator,
                                          !.time = @ + delta,
                                          !.frameCount = @ + 1],
            !.substeps = out.substeps,
            !.deltaTime = delta,
            !.biologyUpdates = @ + out.substeps]

\* The state animationLoop leaves, given what its substep block left.
AfterSubsteps(r, out, active, delta, renderDraws) ==
  [r EXCEPT !.tree = out.world.tree,
            !.environment = out.world.environment,
            !.prng = renderScene(out.world.prng, renderDraws),
            !.healthHistory = out.world.healthHistory,
            !.simulationState = [@ EXCEPT !.physicsAccumulator = out.physicsAccumulator,
                                          !.time = IF active THEN @ + delta ELSE @,
                                          !.frameCount = @ + 1],
            !.substeps = out.substeps,
            !.deltaTime = delta,
            !.biologyUpdates = @ + out.substeps]

\* The part of a run the substeps work on.
WorldOf(r) ==
  [tree |-> r.tree, environment |-> r.environment, prng |-> r.prng,
   healthHistory |-> r.healthHistory]

\* animationLoop(timestamp) on a run r (the program state as one record).
\* delta is deltaTime = deltaMs / 1000 * speed in quarter substeps.
animationLoopOf(r, delta, renderDraws, regenDraws) ==
  IF r.simulationState.running /\ ~r.simulationState.paused
  THEN AfterSubsteps(r, Substeps(WorldOf(r), r.simulationState.physicsAccumulator + delta, 0,
                                 r.ui, r.simulationState.frameCount, regenDraws),
                     TRUE, delta, renderDraws)
  ELSE AfterSubsteps(r, [world |-> WorldOf(r),
                         physicsAccumulator |-> r.simulationState.physicsAccumulator,
                         substeps |-> 0],
                     FALSE, delta, renderDraws)

(***************************************************************************)
(* js/tree.js: UI handlers                                                 *)
(***************************************************************************)
\* togglePause(): the button toggles simulationState.running.
togglePauseOf(r) == [r EXCEPT !.simulationState.running = ~@]

\* resetSimulation(): confirmed is the answer to the dialog shown for a tree
\* older than 50 years; initDraws is how many values initializeTree draws.
resetSimulationOf(r, confirmed, initDraws) ==
  IF r.tree.age > 50 * TicksPerYear /\ ~confirmed THEN r
  ELSE LET controls == [r.ui EXCEPT !.disease = FALSE, !.pests = FALSE,
                                    !.storm = FALSE, !.pollution = FALSE]
       IN  [r EXCEPT !.ui = controls,
                     !.tree = initializeTree(@),
                     !.prng = PrngAdvance(@, initDraws),
                     !.environment = updateEnvironmentTime(updateEnvironmentFromUI(@, controls), 0),
                     !.healthHistory = << >>,
                     !.simulationState = [@ EXCEPT !.time = 0, !.running = TRUE],
                     !.biologyUpdates = 0]

\* The species selector's change handler.
changeSpeciesOf(r, name, confirmed, initDraws) ==
  IF name \in SpeciesNames
  THEN resetSimulationOf([r EXCEPT !.tree.species = name], confirmed, initDraws)
  ELSE r

\* A stressor checkbox's change handler: the box flips and
\* updateEnvironmentFromUI() runs.
toggleStressorOf(r, id) ==
  LET controls == [r.ui EXCEPT ![id] = ~@]
  IN  [r EXCEPT !.ui = controls, !.environment = updateEnvironmentFromUI(@, controls)]

\* A slider's input handler: the control moves; the environment follows at
\* the next updateEnvironmentFromUI().
moveSlidersOf(r, sliders) ==
  [r EXCEPT !.ui = [@ EXCEPT !.sun = sliders.sun, !.water = sliders.water,
                             !.temp = sliders.temp, !.soil = sliders.soil,
                             !.wind = sliders.wind, !.humidity = sliders.humidity]]

(***************************************************************************)
(* applyVariablesConfigFromObject                                          *)
(***************************************************************************)
\* A configuration object lists the keys it defines; a value is a number
\* [kind |-> "number", n |-> number], null or a text.
Defines(vars, key) == key \in vars.defined

\* Number(value) for a value of a parsed JSON document: a number is itself,
\* null converts to 0, and a text that is not a numeral converts to NaN.
Number(value) ==
  CASE value.kind = "number" -> [finite |-> TRUE, n |-> value.n]
    [] value.kind = "null" -> [finite |-> TRUE, n |-> 0]
    [] OTHER -> [finite |-> FALSE, n |-> 0]

\* clampNumber(value, min, max, fallback)
clampNumber(value, lo, hi, fallback) ==
  LET n == Number(value)
  IN  IF ~n.finite THEN fallback ELSE Min(hi, Max(lo, n.n))

\* The sliders applyVariablesConfigFromObject sets from ui_defaults.
ConfiguredSliders(controls, vars) ==
  [controls EXCEPT
     !.sun = IF Defines(vars, "light_intensity")
             THEN clampNumber(vars.light_intensity, 0, Micro, 700000) \div 10000 ELSE @,
     !.water = IF Defines(vars, "water_level")
               THEN clampNumber(vars.water_level, 0, Micro, 600000) \div 10000 ELSE @,
     !.temp = IF Defines(vars, "temperature")
              THEN clampNumber(vars.temperature, -20, 50, 20) ELSE @]

\* The mortality tuning of applyVariablesConfigFromObject.
ConfiguredMortality(m, vars) ==
  LET maxAge == IF Defines(vars, "max_age")
                THEN clampNumber(vars.max_age, 1, 5000, m.maxAge) ELSE m.maxAge
  IN  [enabled |-> IF Defines(vars, "enable_mortality") THEN vars.enable_mortality ELSE m.enabled,
       maxAge |-> maxAge,
       senescenceStartAge |->
         IF Defines(vars, "senescence_start_age")
         THEN clampNumber(vars.senescence_start_age, 0, maxAge, m.senescenceStartAge)
         ELSE m.senescenceStartAge,
       baseRatePerYear |->
         IF Defines(vars, "base_mortality_rate")
         THEN clampNumber(vars.base_mortality_rate, 0, 5 * Micro, m.baseRatePerYear)
         ELSE m.baseRatePerYear,
       droughtThreshold |->
         IF Defines(vars, "drought_threshold")
         THEN clampNumber(vars.drought_threshold, 0, Micro, m.droughtThreshold)
         ELSE m.droughtThreshold,
       heatStressTemp |->
         IF Defines(vars, "heat_stress_temp")
         THEN clampNumber(vars.heat_stress_temp, -50, 100, m.heatStressTemp)
         ELSE m.heatStressTemp,
       diseaseBaseRatePerYear |->
         IF Defines(vars, "disease_base_rate")
         THEN clampNumber(vars.disease_base_rate, 0, 5 * Micro, m.diseaseBaseRatePerYear)
         ELSE m.diseaseBaseRatePerYear,
       stormFrequency |->
         IF Defines(vars, "storm_frequency")
         THEN clampNumber(vars.storm_frequency, 0, 5 * Micro, m.stormFrequency)
         ELSE m.stormFrequency]

\* applyVariablesConfigFromObject(vars)
applyVariablesConfigFromObject(r, vars) ==
  LET controls == ConfiguredSliders(r.ui, vars)
  IN  [r EXCEPT !.ui = controls,
                !.tree.mortality = ConfiguredMortality(@, vars),
                !.environment = updateEnvironmentFromUI(@, controls)]

\* The Apply Config button: the configuration is applied, then
\* resetSimulation() runs.
applyConfigOf(r, vars, confirmed, initDraws) ==
  resetSimulationOf(applyVariablesConfigFromObject(r, vars), confirmed, initDraws)

(***************************************************************************)
(* js/tree.js: exportTreeData, importTreeData                              *)
(***************************************************************************)
\* history.slice(-n): the last n samples.
SliceLast(history, n) == SubSeq(history, Max(1, Len(history) - n + 1), Len(history))

\* exportTreeData() on a run r.  given tells a snapshot object from null or
\* undefined; the timestamp is written and never read; tree.growthRings does
\* not exist on the tree object and is exported as undefined.
exportTreeData(r) ==
  [given |-> TRUE,
   version |-> "2.0",
   seed |-> r.prng.seed,
   tree |-> [age |-> r.tree.age, health |-> r.tree.health, height |-> r.tree.height,
             dbh |-> r.tree.dbh, species |-> r.tree.species, biomass |-> r.tree.biomass,
             co2Absorbed |-> r.tree.co2Absorbed, o2Produced |-> r.tree.o2Produced],
   environment |-> [year |-> r.environment.year, dayOfYear |-> r.environment.dayOfYear],
   healthHistory |-> SliceLast(r.healthHistory, 100)]

\* A plausible slip: the version of the snapshot is not compared.
AcceptedAnyVersion(data) == data.given

\* The negation of importTreeData's guard: !data || data.version !== '2.0'.
Accepted(data) == data.given /\ data.version = "2.0"

\* What the last importTreeData(data) call was given and what it returned.
ImportCall(data, returned) ==
  [called |-> TRUE, given |-> data.given,
   version |-> IF data.given THEN data.version ELSE "undefined",
   returned |-> returned]

\* importTreeData(data) on a run r: initPRNG(data.seed), then Object.assign
\* copies the fields of the snapshot over the tree and the environment.
importTreeDataOf(r, data) ==
  IF ~Accepted(data) THEN [r EXCEPT !.imported = ImportCall(data, FALSE)]
  ELSE [r EXCEPT !.prng = initPRNG(data.seed),
                 !.tree = [@ EXCEPT !.age = data.tree.age, !.health = data.tree.health,
                                    !.height = data.tree.height, !.dbh = data.tree.dbh,
                                    !.species = data.tree.species,
                                    !.biomass = data.tree.biomass,
                                    !.co2Absorbed = data.tree.co2Absorbed,
                                    !.o2Produced = data.tree.o2Produced],
                 !.environment = [@ EXCEPT !.year = data.environment.year,
                                           !.dayOfYear = data.environment.dayOfYear],
                 !.healthHistory = data.healthHistory,
                 !.imported = ImportCall(data, TRUE)]

(***************************************************************************)
(* Bounds and inputs                                                       *)
(***************************************************************************)
\* Events (animationLoop calls and UI events) explored in one run.
MaxEvents == 3

\* How many values one renderScene() call, and one (re)generation of the
\* visual structures, may draw from the generator.
RenderDrawCounts == {1}
GeometryDrawCounts == {1}

\* deltaTime of a frame, in quarter substeps: deltaMs <= 100 and speed <= 10
\* keep it at or below 60 substeps.
FrameDeltas == {3, 4, 45}

\* Slider positions (sun, water, soil, wind, humidity in percent, temp in C).
SliderInputs ==
  { [sun |-> 70, water |-> 60, temp |-> 20, soil |-> 70, wind |-> 30, humidity |-> 60],
    [sun |-> 100, water |-> 5, temp |-> 45, soil |-> 20, wind |-> 80, humidity |-> 10],
    [sun |-> 0, water |-> 100, temp |-> -20, soil |-> 0, wind |-> 0, humidity |-> 100] }

\* The stressor checkboxes and the species the explored runs operate.
StressorInputs == {"disease", "storm"}

SpeciesInputs == {"PINE", "BIRCH"}

Num(n) == [kind |-> "number", n |-> n]

\* The JSON values null and "abc".
Null == [kind |-> "null"]

Text == [kind |-> "string"]

\* Configuration objects: the one the README documents, and two that set a
\* one-year life span (max_age 0 is clamped to 1, senescence_start_age -5 to 0).
ShippedConfig ==
  [defined |-> {"light_intensity", "water_level", "temperature", "drought_threshold",
                "heat_stress_temp", "disease_base_rate", "storm_frequency", "max_age",
                "senescence_start_age", "base_mortality_rate", "enable_mortality"},
   light_intensity |-> Num(800000), water_level |-> Num(700000), temperature |-> Num(20),
   drought_threshold |-> Num(300000), heat_stress_temp |-> Num(35),
   disease_base_rate |-> Num(20000), storm_frequency |-> Num(50000),
   max_age |-> Num(200), senescence_start_age |-> Num(150),
   base_mortality_rate |-> Num(1000), enable_mortality |-> TRUE]

ShortLifeConfig ==
  [defined |-> {"max_age", "senescence_start_age", "enable_mortality"},
   max_age |-> Num(0), senescence_start_age |-> Num(-5), enable_mortality |-> TRUE]

ShortLifeOffConfig ==
  [defined |-> {"max_age", "enable_mortality"},
   max_age |-> Num(1), enable_mortality |-> FALSE]

\* A malformed configuration: max_age is a text, storm_frequency is null,
\* base_mortality_rate -1 and drought_threshold -1 lie below their ranges,
\* heat_stress_temp 500 and disease_base_rate 9 above.  It leaves a tree under
\* the default sliders without any hazard.
MalformedConfig ==
  [defined |-> {"max_age", "base_mortality_rate", "drought_threshold", "heat_stress_temp",
                "disease_base_rate", "storm_frequency", "enable_mortality"},
   max_age |-> Text, base_mortality_rate |-> Num(-1 * Micro),
   drought_threshold |-> Num(-1 * Micro), heat_stress_temp |-> Num(500),
   disease_base_rate |-> Num(9 * Micro), storm_frequency |-> Null,
   enable_mortality |-> TRUE]

ConfigInputs == {ShippedConfig, ShortLifeConfig, ShortLifeOffConfig, MalformedConfig}

\* States of the generator at the start of the explored stretch of a run.
\* The generator has full period, so every 32-bit value is its state at some
\* point: 12345 is the default seed; from the others the next value drawn is
\* 0 and 190 / 2^32.
GeneratorStates == {12345, 634785765, 1347940891}

\* The tree one tick before its first birthday, grown from the sapling under
\* the default environment (float values of that run, rounded).
Yearling ==
  [TreeObject EXCEPT
     !.age = TicksPerYear - 1, !.daysSinceBirth = TicksPerYear - 1,
     !.height = 321698, !.dbh = 809100, !.crownRadius = 128679, !.crownHeight = 160849,
     !.rootDepth = 75368, !.rootSpread = 125295,
     !.leafCount = 13, !.leafArea = 26245, !.foliageOpacity = 50000, !.foliageDensity = 100000,
     !.chlorophyllContent = 0, !.vigor = 0, !.waterContent = 37770918,
     !.biomass = [total |-> 25622593, trunk |-> 15183235, branches |-> 4855420,
                  leaves |-> 2122316, roots |-> 3461622, heartwood |-> 0, sapwood |-> 15183235],
     !.co2Absorbed = 189, !.o2Produced = 252, !.waterTranspired = 63260889,
     !.carbonStored = 12811296, !.growthThisYear = 71698, !.ringsGrown = 1,
     !.dormant = TRUE]

\* Points of a run at which exploration starts: the sapling at construction
\* (day 0) and after a reset in summer and in winter (a reset keeps the
\* calendar), and the yearling at the end of the first year.
Sapling(day) ==
  [tree |-> initializeTree(TreeObject), year |-> 0, dayOfYear |-> day * TicksPerDay]

EndOfFirstYear ==
  [tree |-> Yearling, year |-> 0, dayOfYear |-> DAYS_PER_YEAR * TicksPerDay - 1]

\* The oak on day 100 of its 52nd year, grown from the sapling under the
\* default sliders with the humidity slider at 100 (float values of that run,
\* rounded); every year crossed has added two rings to the first one.
Elder ==
  [tree |->
     [TreeObject EXCEPT
        !.age = 51 * TicksPerYear + 100 * TicksPerDay,
        !.daysSinceBirth = 51 * TicksPerYear + 100 * TicksPerDay,
        !.height = 1931425, !.dbh = 1652879, !.crownRadius = 772570, !.crownHeight = 965712,
        !.rootDepth = 84062, !.rootSpread = 132249,
        !.leafCount = 937, !.leafArea = 1875104,
        !.vigor = 1154032,
        !.biomass = [total |-> 1007514041, trunk |-> 596693125, branches |-> 190852406,
                     leaves |-> 83209316, roots |-> 136759194, heartwood |-> 559256068,
                     sapwood |-> 37437057],
        !.co2Absorbed = 212588, !.o2Produced = 283450, !.carbonStored = 503757020,
        !.growthThisYear = 5948, !.ringsGrown = 103],
   year |-> 51,
   dayOfYear |-> 100 * TicksPerDay]

\* Each checkpoint with the mortality settings it is explored under.
\* The controls of the page as it loads.
DefaultControls ==
  [sun |-> 70, water |-> 60, temp |-> 20, soil |-> 70, wind |-> 30, humidity |-> 60,
   disease |-> FALSE, pests |-> FALSE, storm |-> FALSE, pollution |-> FALSE]

\* The sliders at the hot, dry and windy setting of SliderInputs.
HarshControls ==
  [DefaultControls EXCEPT !.sun = 100, !.water = 5, !.temp = 45, !.soil = 20, !.wind = 80,
                          !.humidity = 10]

\* n substeps in a row with the sliders at controls.
RECURSIVE Weathered(_, _, _)
Weathered(w, controls, n) ==
  IF n = 0 THEN w
  ELSE Weathered(updateBiology([w EXCEPT !.environment = updateEnvironmentFromUI(@, controls)],
                                1, 1),
                 controls, n - 1)

\* The sapling of day 100 after five substeps with the sliders at
\* HarshControls: its health has fallen below 25.
Ailing ==
  LET w == Weathered([tree |-> initializeTree(TreeObject),
                      environment |-> updateEnvironmentTime(
                                        [EnvironmentObject EXCEPT !.dayOfYear = 100 * TicksPerDay],
                                        0),
                      prng |-> initPRNG(12345),
                      healthHistory |-> << >>],
                     HarshControls, 5)
  IN  [tree |-> w.tree, year |-> w.environment.year, dayOfYear |-> w.environment.dayOfYear]

Scenarios ==
  { <<Sapling(0), DefaultMortality>>,
    <<Ailing, DefaultMortality>>,
    <<Elder, DefaultMortality>>,
    <<Sapling(0), ConfiguredMortality(DefaultMortality, ShippedConfig)>>,
    <<Sapling(0), ConfiguredMortality(DefaultMortality, MalformedConfig)>>,
    <<Sapling(100), DefaultMortality>>,
    <<Sapling(280), DefaultMortality>>,
    <<EndOfFirstYear, ConfiguredMortality(DefaultMortality, ShortLifeConfig)>>,
    <<EndOfFirstYear, ConfiguredMortality(DefaultMortality, ShortLifeOffConfig)>> }

(***************************************************************************)
(* The multi-tree simulation: class Tree (js/tree.js), class Simulation and *)
(* class UI (js/ui.js).  Ages are whole updates; stresses, hazards, health  *)
(* and heights are micro values; temperatures are whole degrees.           *)
(***************************************************************************)
\* The keys of stats.deathsByCause.
DeathCauses == {"senescence", "drought", "heat_stress", "disease", "storm_damage", "poor_health"}

SENESCENCE_MORTALITY_RATE == 100000
DROUGHT_MORTALITY_THRESHOLD == 700000
DROUGHT_MORTALITY_RATE == 50000
HEAT_MORTALITY_THRESHOLD == 800000
HEAT_MORTALITY_RATE == 30000

\* The values Math.random() returns, as micro values: the least and (nearly)
\* the greatest of [0, 1).
RandomValues == {0, 999999}

\* The values Math.random() returns to the tests of one checkMortality call
\* (senescence, drought, heat, disease, storm, storm damage): near 1 for
\* all, or 0 for one test, the storm test taking its two draws together.
\* The first test that succeeds decides the call, so these give every
\* outcome the 64 combinations of the two values give.
Draws ==
  { [test \in 1..6 |-> IF test \in lucky THEN 0 ELSE 999999] :
      lucky \in {{}, {1}, {2}, {3}, {4}, {5, 6}} }

\* value || fallback for a number.
OrElse(value, fallback) == IF value = 0 THEN fallback ELSE value

\* new Tree(x, y, config) with config = hdr_parameters; resistance is the
\* value Math.random() returned for diseaseResistance.  The position decides
\* nothing and is left out.
NewTree(hdr, resistance) ==
  [age |-> 0, height |-> 10 * Micro, health |-> 100 * Micro, alive |-> TRUE,
   deathCause |-> "null", deathAge |-> -1,
   maxAge |-> OrElse(hdr.max_age, 200),
   senescenceStartAge |-> OrElse(hdr.senescence_start_age, 150),
   baseMortalityRate |-> OrElse(hdr.base_mortality_rate, 1000),
   waterStress |-> 0, heatStress |-> 0, diseaseResistance |-> resistance]

\* Simulation.getEnvironment()
getEnvironment(config) ==
  [water_level |-> config.water_level, temperature |-> config.temperature,
   light_intensity |-> config.light_intensity, growth_rate |-> config.growth_rate,
   drought_threshold |-> config.drought_threshold,
   heat_stress_temp |-> config.heat_stress_temp,
   disease_base_rate |-> config.disease_base_rate,
   storm_frequency |-> config.storm_frequency,
   enable_mortality |-> config.enable_mortality, enable_growth |-> config.enable_growth]

\* Tree.calculateStress(environment)
calculateStress(t, env) ==
  LET waterStress == IF env.water_level < env.drought_threshold
                     THEN Micro - UDiv(env.water_level, env.drought_threshold)
                     ELSE Max(0, t.waterStress - 50000)
      heatStress == IF env.temperature > env.heat_stress_temp
                    THEN (env.temperature - env.heat_stress_temp) * (Micro \div 20)
                    ELSE Max(0, t.heatStress - 50000)
  IN  [t EXCEPT !.waterStress = waterStress,
                !.heatStress = heatStress,
                !.health = Max(0, @ - (waterStress + heatStress) \div 2)]

\* Tree.die(cause)
die(t, cause) == [t EXCEPT !.alive = FALSE, !.deathCause = cause, !.deathAge = t.age]

\* (age - senescenceStartAge) / (maxAge - senescenceStartAge), for a tree
\* whose maxAge differs from its senescenceStartAge.
SenescenceRatio(t) ==
  SDiv((t.age - t.senescenceStartAge) * Micro, Abs(t.maxAge - t.senescenceStartAge))
    * Sgn(t.maxAge - t.senescenceStartAge)

\* The hazard of the senescence test of checkMortality.
SenescenceHazard(t) ==
  t.baseMortalityRate + SMul(SMul(SenescenceRatio(t), SenescenceRatio(t)), SENESCENCE_MORTALITY_RATE)

\* The cause checkMortality passes to die(), or "null" when it returns false.
\* drawn[i] is the value Math.random() returns to the i-th test.
MortalityCause(t, env, drawn) ==
  IF ~env.enable_mortality THEN "null"
  ELSE IF t.age > t.senescenceStartAge /\ drawn[1] < SenescenceHazard(t) THEN "senescence"
  ELSE IF /\ t.waterStress > DROUGHT_MORTALITY_THRESHOLD
          /\ drawn[2] < SMul(t.waterStress, DROUGHT_MORTALITY_RATE) THEN "drought"
  ELSE IF /\ t.heatStress > HEAT_MORTALITY_THRESHOLD
          /\ drawn[3] < SMul(t.heatStress, HEAT_MORTALITY_RATE) THEN "heat_stress"
  ELSE IF drawn[4] < SMul(env.disease_base_rate, Micro - t.diseaseResistance) THEN "disease"
  ELSE IF /\ drawn[5] < env.storm_frequency
          /\ drawn[6] < SMul(t.height \div 100, 100000) THEN "storm_damage"
  ELSE IF t.health <= 0 THEN "poor_health"
  ELSE "null"

\* Tree.checkMortality(environment): the tree it leaves.
checkMortality(t, env, drawn) ==
  IF MortalityCause(t, env, drawn) = "null" THEN t
  ELSE die(t, MortalityCause(t, env, drawn))

\* Tree.grow(environment).  The radius is only drawn and is left out.
grow(t, env) ==
  LET growthRate == OrElse(env.growth_rate, Micro)
      lightFactor == OrElse(env.light_intensity, 800000)
      waterFactor == Min(Micro, env.water_level * 2)
      ageFactor == IF t.age < t.senescenceStartAge THEN Micro
                   ELSE Micro - SenescenceRatio(t) \div 2
      growthAmount == SMul(SMul(SMul(SMul(growthRate, lightFactor), waterFactor), ageFactor),
                           100000)
  IN  [t EXCEPT !.height = Min(@ + growthAmount, 100 * Micro)]

\* Tree.update(environment)
TreeUpdate(t, env, drawn) ==
  IF ~t.alive THEN t
  ELSE LET aged == calculateStress([t EXCEPT !.age = @ + 1], env)
           checked == checkMortality(aged, env, drawn)
       IN  IF ~checked.alive THEN checked
           ELSE IF env.enable_growth THEN grow(checked, env)
           ELSE checked

\* A plausible slip: a dead tree is counted at every update, not only at the
\* update in which it died.
JustDiedOrDead(wasAlive, t) == ~t.alive

\* wasAlive && !tree.alive
JustDied(wasAlive, t) == wasAlive /\ ~t.alive

\* The statistics after the loop of Simulation.update() handled one tree:
\* before is the tree as the loop found it, after is the tree updated.
\* Every cause die() is called with is a key of deathsByCause.
Counted(stats, before, after) ==
  IF JustDied(before.alive, after)
  THEN [stats EXCEPT !.totalDeaths = @ + 1,
                     !.deathsByCause =
                        IF after.deathCause \in DOMAIN @
                        THEN [@ EXCEPT ![after.deathCause] = @ + 1] ELSE @]
  ELSE stats

\* The loop of Simulation.update() over trees[i..]: stats.totalDeaths and
\* stats.deathsByCause as the loop leaves them.
RECURSIVE CountedFrom(_, _, _, _)
CountedFrom(stats, before, after, i) ==
  IF i > Len(before) THEN stats
  ELSE CountedFrom(Counted(stats, before[i], after[i]), before, after, i + 1)

\* How many trees of a list are alive.
AliveIn(trees) == Cardinality({i \in 1..Len(trees) : trees[i].alive})

\* Simulation.update() on a simulation sim under a configuration; luck[i]
\* holds the values Math.random() returns during the update of trees[i].
\* stats.averageAge is only drawn and is left out.
SimulationUpdate(sim, config, luck) ==
  LET updated == [i \in 1..Len(sim.trees) |->
                    TreeUpdate(sim.trees[i], getEnvironment(config), luck[i])]
  IN  [sim EXCEPT !.trees = updated,
                  !.stats = [CountedFrom(@, sim.trees, updated, 1) EXCEPT
                               !.aliveCount = AliveIn(updated)]]

\* Simulation.loop(): the update, the frame count and the callback it leaves
\* pending, an animation frame at speed 1.0 and a timer at any other speed.
loop(sim, config, luck) ==
  IF ~sim.running THEN sim
  ELSE [SimulationUpdate(sim, config, luck) EXCEPT
          !.frameCount = @ + 1,
          !.pendingFrames = IF OrElse(config.simulation_speed, Micro) = Micro THEN @ + 1 ELSE @,
          !.pendingTimers = IF OrElse(config.simulation_speed, Micro) = Micro THEN @ ELSE @ + 1]

\* Simulation.start()
start(sim, config, luck) == loop([sim EXCEPT !.running = TRUE], config, luck)

\* Simulation.stop()
stop(sim) == [sim EXCEPT !.running = FALSE]

\* new Simulation(canvas, config): initializeTrees() makes tree_count trees;
\* resistances[i] is the disease resistance drawn for the i-th.
NewSimulation(config, resistances) ==
  [exists |-> TRUE, running |-> FALSE, frameCount |-> 0,
   pendingFrames |-> 0, pendingTimers |-> 0,
   trees |-> [i \in 1..config.tree_count |-> NewTree(config.hdr_parameters, resistances[i])],
   stats |-> [totalDeaths |-> 0, deathsByCause |-> [cause \in DeathCauses |-> 0],
              aliveCount |-> 0]]

\* this.simulation = null, in the constructor of UI.
NoSimulation ==
  [exists |-> FALSE, running |-> FALSE, frameCount |-> 0, pendingFrames |-> 0,
   pendingTimers |-> 0, trees |-> << >>,
   stats |-> [totalDeaths |-> 0, deathsByCause |-> [cause \in DeathCauses |-> 0],
              aliveCount |-> 0]]

\* UI.startSimulation() on the page p = [config, simulation].
startSimulationOf(p, resistances, luck) ==
  LET sim == IF ~p.simulation.exists THEN NewSimulation(p.config, resistances)
             ELSE p.simulation
  IN  [p EXCEPT !.simulation = IF ~sim.running THEN start(sim, p.config, luck) ELSE sim]

\* UI.stopSimulation()
stopSimulationOf(p) ==
  IF p.simulation.exists /\ p.simulation.running
  THEN [p EXCEPT !.simulation = stop(@)]
  ELSE p

\* UI.resetSimulation(): the old simulation is stopped and replaced.  Its
\* pending callback finds running false and returns.
resetForestOf(p, resistances) ==
  [p EXCEPT !.simulation = NewSimulation(p.config, resistances)]

\* UI.applyConfig() and the slider handlers: this.config is replaced or
\* changed and passed to Simulation.updateConfig().  The trees keep the
\* hdr_parameters they were made with.
updateConfigOf(p, config) == [p EXCEPT !.config = config]

\* A pending callback of the simulation runs: () => this.loop().
callbackOf(p, timer, luck) ==
  [p EXCEPT !.simulation =
     loop([@ EXCEPT !.pendingFrames = IF timer THEN @ ELSE @ - 1,
                    !.pendingTimers = IF timer THEN @ - 1 ELSE @],
          p.config, luck)]

\* getDefaultConfig() of the UI, except for the number of trees.
TemperateConfig ==
  [tree_count |-> 2, growth_rate |-> Micro, water_level |-> 700000, temperature |-> 20,
   light_intensity |-> 800000, drought_threshold |-> 300000, heat_stress_temp |-> 35,
   disease_base_rate |-> 20000, storm_frequency |-> 50000,
   hdr_parameters |-> [max_age |-> 200, senescence_start_age |-> 150,
                       base_mortality_rate |-> 1000],
   enable_mortality |-> TRUE, enable_growth |-> TRUE, simulation_speed |-> Micro]

\* Trees that grow old after one update, at half speed.
ShortLivedConfig ==
  [TemperateConfig EXCEPT !.hdr_parameters = [max_age |-> 3, senescence_start_age |-> 1,
                                              base_mortality_rate |-> 1000],
                          !.simulation_speed = 500000]

\* No water and 55 degrees: drought and heat hazards.
ParchedConfig == [TemperateConfig EXCEPT !.water_level = 0, !.temperature = 55]

\* 4035 degrees with the mortality and the growth switched off: one update
\* uses up the health of a tree.
ScorchedConfig ==
  [TemperateConfig EXCEPT !.temperature = 4035, !.enable_mortality = FALSE,
                          !.enable_growth = FALSE]

\* 36 degrees: a heat stress of 0.05, below the threshold of the heat hazard.
WarmConfig == [TemperateConfig EXCEPT !.temperature = 36]

ForestConfigs ==
  {TemperateConfig, ShortLivedConfig, ParchedConfig, ScorchedConfig, WarmConfig}

\* The disease resistances Math.random() gives the trees of a simulation.
Resistances == {<<0, 500000>>, <<500000, 500000>>}

\* How many updates and how many UI events a run of the forest holds.
MaxFrames == 3
MaxPresses == 3

\* The page after UI.init(): the configuration is loaded and no simulation
\* has been made.
PageLoaded == [config |-> TemperateConfig, simulation |-> NoSimulation]

(***************************************************************************)
(* State                                                                   *)
(***************************************************************************)
VARIABLES
  tree,             \* the tree object
  environment,      \* the environment object
  prng,             \* prngState: seed and state
  healthHistory,    \* the health graph's samples
  simulationState,  \* running, paused, time, physicsAccumulator, frameCount
  ui,               \* the sliders and checkboxes of the page
  substeps,         \* animationLoop's substeps counter at its last return
  deltaTime,        \* animationLoop's deltaTime at its last call
  biologyUpdates,   \* updateBiology calls since simulationState.time was 0
  imported,         \* the last importTreeData call: its argument and what it returned
  events,           \* animationLoop calls and UI events so far
  twin,             \* a second run of the program, for two-run properties
  forest            \* the UI of the multi-tree page: its config and its Simulation

vars == <<tree, environment, prng, healthHistory, simulationState, ui, substeps, deltaTime,
          biologyUpdates, imported, events, twin, forest>>

\* The program state as one record.
Run ==
  [tree |-> tree, environment |-> environment, prng |-> prng, healthHistory |-> healthHistory,
   simulationState |-> simulationState, ui |-> ui, substeps |-> substeps,
   deltaTime |-> deltaTime, biologyUpdates |-> biologyUpdates, imported |-> imported]

\* The next program state is r.
Becomes(r) ==
  /\ tree' = r.tree
  /\ environment' = r.environment
  /\ prng' = r.prng
  /\ healthHistory' = r.healthHistory
  /\ simulationState' = r.simulationState
  /\ ui' = r.ui
  /\ substeps' = r.substeps
  /\ deltaTime' = r.deltaTime
  /\ biologyUpdates' = r.biologyUpdates
  /\ imported' = r.imported

\* startSimulation() and the run up to a checkpoint.
StartOf(checkpoint, mortality, generatorState) ==
  [tree |-> [checkpoint.tree EXCEPT !.mortality = mortality],
   environment |-> updateEnvironmentTime(
                     updateEnvironmentFromUI([EnvironmentObject EXCEPT
                                                !.year = checkpoint.year,
                                                !.dayOfYear = checkpoint.dayOfYear],
                                             DefaultControls), 0),
   prng |-> initPRNG(generatorState),
   healthHistory |-> << >>,
   simulationState |-> [running |-> TRUE, paused |-> FALSE, time |-> 0,
                        physicsAccumulator |-> 0, frameCount |-> 0],
   ui |-> DefaultControls,
   substeps |-> 0,
   deltaTime |-> 0,
   biologyUpdates |-> 0,
   imported |-> [called |-> FALSE]]

\* The program state is r.
Is(r) ==
  /\ tree = r.tree
  /\ environment = r.environment
  /\ prng = r.prng
  /\ healthHistory = r.healthHistory
  /\ simulationState = r.simulationState
  /\ ui = r.ui
  /\ substeps = r.substeps
  /\ deltaTime = r.deltaTime
  /\ biologyUpdates = r.biologyUpdates
  /\ imported = r.imported

Init ==
  \E scenario \in Scenarios, generatorState \in GeneratorStates :
    /\ Is(StartOf(scenario[1], scenario[2], generatorState))
    /\ events = 0
    /\ twin = Run
    /\ forest = PageLoaded

(***************************************************************************)
(* Actions                                                                 *)
(***************************************************************************)
\* The answers the confirmation dialog of resetSimulation can get.
DialogAnswers == IF tree.age > 50 * TicksPerYear THEN BOOLEAN ELSE {TRUE}

animationLoop ==
  /\ events < MaxEvents
  /\ \E delta \in FrameDeltas, renderDraws \in RenderDrawCounts, regenDraws \in GeometryDrawCounts :
       Becomes(animationLoopOf(Run, delta, renderDraws, regenDraws))
  /\ events' = events + 1
  /\ UNCHANGED <<twin, forest>>

togglePause ==
  /\ events < MaxEvents
  /\ Becomes(togglePauseOf(Run))
  /\ events' = events + 1
  /\ UNCHANGED <<twin, forest>>

resetSimulation ==
  /\ events < MaxEvents
  /\ \E confirmed \in DialogAnswers, initDraws \in GeometryDrawCounts :
       Becomes(resetSimulationOf(Run, confirmed, initDraws))
  /\ events' = events + 1
  /\ UNCHANGED <<twin, forest>>

changeSpecies ==
  /\ events < MaxEvents
  /\ \E name \in SpeciesInputs, confirmed \in DialogAnswers, initDraws \in GeometryDrawCounts :
       Becomes(changeSpeciesOf(Run, name, confirmed, initDraws))
  /\ events' = events + 1
  /\ UNCHANGED <<twin, forest>>

applyConfig ==
  /\ events < MaxEvents
  /\ \E config \in ConfigInputs, confirmed \in DialogAnswers, initDraws \in GeometryDrawCounts :
       Becomes(applyConfigOf(Run, config, confirmed, initDraws))
  /\ events' = events + 1
  /\ UNCHANGED <<twin, forest>>

toggleStressor ==
  /\ events < MaxEvents
  /\ \E id \in StressorInputs : Becomes(toggleStressorOf(Run, id))
  /\ events' = events + 1
  /\ UNCHANGED <<twin, forest>>

moveSliders ==
  /\ events < MaxEvents
  /\ \E sliders \in SliderInputs : Becomes(moveSlidersOf(Run, sliders))
  /\ events' = events + 1
  /\ UNCHANGED <<twin, forest>>

Next ==
  \/ animationLoop
  \/ togglePause
  \/ resetSimulation
  \/ changeSpecies
  \/ applyConfig
  \/ toggleStressor
  \/ moveSliders

Spec == Init /\ [][Next]_vars

(***************************************************************************)
(* Two runs of the program side by side.  Both start from the same seed,   *)
(* tree and controls; each receives its own sequence of animation frames,  *)
(* so the elapsed time is split differently between them.  The controls    *)
(* are moved in both runs at once, when both have run the same number of   *)
(* substeps, so every substep of one run sees the environment values the   *)
(* same substep of the other run sees.                                     *)
(***************************************************************************)
\* Frame deltas of the paired runs, in quarter substeps: 3, 6 and 12 substeps.
PairDeltas == {12, 24, 48}

PairScenarios ==
  { <<Sapling(100), DefaultMortality>>,
    <<Sapling(100), ConfiguredMortality(DefaultMortality, ShippedConfig)>> }

PairInit ==
  \E scenario \in PairScenarios, generatorState \in GeneratorStates, sliders \in SliderInputs :
    /\ Is(moveSlidersOf(StartOf(scenario[1], scenario[2], generatorState), sliders))
    /\ events = 0
    /\ twin = Run
    /\ forest = PageLoaded

PairFrame ==
  /\ events < MaxEvents
  /\ \E delta \in PairDeltas, renderDraws \in RenderDrawCounts, regenDraws \in GeometryDrawCounts :
       Becomes(animationLoopOf(Run, delta, renderDraws, regenDraws))
  /\ events' = events + 1
  /\ UNCHANGED <<twin, forest>>

TwinFrame ==
  /\ events < MaxEvents
  /\ \E delta \in PairDeltas, renderDraws \in RenderDrawCounts, regenDraws \in GeometryDrawCounts :
       twin' = animationLoopOf(twin, delta, renderDraws, regenDraws)
  /\ events' = events + 1
  /\ UNCHANGED <<tree, environment, prng, healthHistory, simulationState, ui, substeps,
                 deltaTime, biologyUpdates, imported, forest>>

PairSliders ==
  /\ events < MaxEvents
  /\ biologyUpdates = twin.biologyUpdates
  /\ simulationState.physicsAccumulator < SubstepQuarters
  /\ twin.simulationState.physicsAccumulator < SubstepQuarters
  /\ \E sliders \in SliderInputs :
       /\ Becomes(moveSlidersOf(Run, sliders))
       /\ twin' = moveSlidersOf(twin, sliders)
  /\ events' = events + 1
  /\ UNCHANGED forest

PairNext ==
  \/ PairFrame
  \/ TwinFrame
  \/ PairSliders

PairSpec == PairInit /\ [][PairNext]_vars

(***************************************************************************)
(* Saving and restoring.  The run and its twin start alike and receive the *)
(* same frames and the same slider moves; importTreeData is called on the  *)
(* run only, with no snapshot, with a snapshot of another version, or with *)
(* the snapshot exportTreeData has just returned.                          *)
(***************************************************************************)
\* From 1111655141 the sixth value drawn is 3 / 2^32.
SaveSeeds == {12345, 634785765, 1111655141}

SaveDeltas == {4, 8}

SaveScenarios ==
  { <<Sapling(100), DefaultMortality>>,
    <<Sapling(100), ConfiguredMortality(DefaultMortality, ShippedConfig)>> }

\* importTreeData() and importTreeData(null)
NoSnapshot == [given |-> FALSE]

\* A save of the start of another run, written by an older version.
OldSnapshot ==
  [exportTreeData(StartOf(Sapling(0), DefaultMortality, 12345)) EXCEPT !.version = "1.0"]

SaveInit ==
  \E scenario \in SaveScenarios, generatorState \in SaveSeeds :
    /\ Is(StartOf(scenario[1], scenario[2], generatorState))
    /\ events = 0
    /\ twin = Run
    /\ forest = PageLoaded

SaveFrame ==
  /\ events < MaxEvents
  /\ \E delta \in SaveDeltas, renderDraws \in RenderDrawCounts, regenDraws \in GeometryDrawCounts :
       /\ Becomes(animationLoopOf(Run, delta, renderDraws, regenDraws))
       /\ twin' = animationLoopOf(twin, delta, renderDraws, regenDraws)
  /\ events' = events + 1
  /\ UNCHANGED forest

SaveSliders ==
  /\ events < MaxEvents
  /\ \E sliders \in SliderInputs :
       /\ Becomes(moveSlidersOf(Run, sliders))
       /\ twin' = moveSlidersOf(twin, sliders)
  /\ events' = events + 1
  /\ UNCHANGED forest

importTreeData ==
  /\ events < MaxEvents
  /\ \E data \in {NoSnapshot, OldSnapshot, exportTreeData(Run)} :
       Becomes(importTreeDataOf(Run, data))
  /\ events' = events + 1
  /\ UNCHANGED <<twin, forest>>

SaveNext ==
  \/ SaveFrame
  \/ SaveSliders
  \/ importTreeData

SaveSpec == SaveInit /\ [][SaveNext]_vars

(***************************************************************************)
(* Seeding.  The seed field of the page holds a text; startSimulation and  *)
(* applySeed parse it and pass the result to initPRNG, and every caller of *)
(* random() advances the generator.                                        *)
(***************************************************************************)
\* parseInt(text): the integer a numeric text holds, NaN for any other text.
parseInt(text) ==
  IF text.kind = "number" THEN [nan |-> FALSE, n |-> text.n] ELSE [nan |-> TRUE, n |-> 0]

\* parseInt(text) || fallback: NaN and 0 are falsy.
ParsedOr(text, fallback) ==
  LET parsed == parseInt(text)
  IN  IF parsed.nan \/ parsed.n = 0 THEN fallback ELSE parsed.n

\* The texts typed into the seed field.
SeedTexts == {Text, Num(0), Num(12345), Num(634785765), Num(-5), Num(-1000), Num(-2147483647)}

\* The values Date.now() returns when applySeed falls back on it
\* (milliseconds, reduced to the width of the model's integers).
ClockValues == {1700000000}

\* How many calls of random() and seedings a run of SeedSpec holds.
MaxDraws == 6

\* applySeed() on a run r: the seed is parsed, brought into range and passed
\* to initPRNG; resetSimulation follows.
applySeedOf(r, text, now, confirmed, initDraws) ==
  resetSimulationOf([r EXCEPT !.prng = initPRNG(SeedInRange(ParsedOr(text, now)))],
                    confirmed, initDraws)

\* startSimulation: parseInt(seedInput.value) || 12345.
SeedInit ==
  \E text \in SeedTexts :
    /\ Is(StartOf(Sapling(0), DefaultMortality, ParsedOr(text, 12345)))
    /\ events = 0
    /\ twin = Run
    /\ forest = PageLoaded

applySeed ==
  /\ events < MaxDraws
  /\ \E text \in SeedTexts, now \in ClockValues, confirmed \in DialogAnswers,
        initDraws \in GeometryDrawCounts :
       Becomes(applySeedOf(Run, text, now, confirmed, initDraws))
  /\ events' = events + 1
  /\ UNCHANGED <<twin, forest>>

\* One call of random() with no arguments, by any of its callers.
random ==
  /\ events < MaxDraws
  /\ prng' = PrngNext(prng)
  /\ events' = events + 1
  /\ UNCHANGED <<tree, environment, healthHistory, simulationState, ui, substeps, deltaTime,
                 biologyUpdates, imported, twin, forest>>

SeedNext ==
  \/ applySeed
  \/ random

SeedSpec == SeedInit /\ [][SeedNext]_vars

(***************************************************************************)
(* The page of the multi-tree simulation: the buttons of the UI and the    *)
(* callbacks of the Simulation.                                            *)
(***************************************************************************)
ForestInit ==
  /\ \E config \in ForestConfigs : forest = [config |-> config, simulation |-> NoSimulation]
  /\ Is(StartOf(Sapling(0), DefaultMortality, 12345))
  /\ events = 0
  /\ twin = Run

ForestFrame ==
  UNCHANGED <<tree, environment, prng, healthHistory, simulationState, ui, substeps,
              deltaTime, biologyUpdates, imported, twin>>

startSimulation ==
  /\ events < MaxPresses
  /\ forest.simulation.frameCount < MaxFrames
  /\ \E resistances \in Resistances, luck \in [1..2 -> Draws] :
       forest' = startSimulationOf(forest, resistances, luck)
  /\ events' = events + 1
  /\ ForestFrame

stopSimulation ==
  /\ events < MaxPresses
  /\ forest' = stopSimulationOf(forest)
  /\ events' = events + 1
  /\ ForestFrame

resetForest ==
  /\ events < MaxPresses
  /\ \E resistances \in Resistances : forest' = resetForestOf(forest, resistances)
  /\ events' = events + 1
  /\ ForestFrame

updateConfig ==
  /\ events < MaxPresses
  /\ \E config \in ForestConfigs : forest' = updateConfigOf(forest, config)
  /\ events' = events + 1
  /\ ForestFrame

frameCallback ==
  /\ forest.simulation.pendingFrames > 0
  /\ forest.simulation.frameCount < MaxFrames
  /\ \E luck \in [1..2 -> Draws] : forest' = callbackOf(forest, FALSE, luck)
  /\ UNCHANGED events
  /\ ForestFrame

timerCallback ==
  /\ forest.simulation.pendingTimers > 0
  /\ forest.simulation.frameCount < MaxFrames
  /\ \E luck \in [1..2 -> Draws] : forest' = callbackOf(forest, TRUE, luck)
  /\ UNCHANGED events
  /\ ForestFrame

ForestNext ==
  \/ startSimulation
  \/ stopSimulation
  \/ resetForest
  \/ updateConfig
  \/ frameCallback
  \/ timerCallback

ForestSpec == ForestInit /\ [][ForestNext]_vars

(***************************************************************************)
(* Properties of the scheduler                                             *)
(***************************************************************************)
\* The step is a call of animationLoop.
IsFrame == simulationState'.frameCount = simulationState.frameCount + 1

Active == simulationState.running /\ ~simulationState.paused

\* C1: one call of animationLoop while running, with accumulator a and scaled
\* frame delta d, runs n = min(10, floor((a + d) / substepTime)) updates of one
\* substep each (the update counter and the age of a tree that lives through
\* the call advance by n) and leaves the accumulator at a + d - n * substepTime.
C1_SubstepsPerCall ==
  [][ (IsFrame /\ Active) =>
        LET a == simulationState.physicsAccumulator
            d == deltaTime'
            n == Min(maxSubsteps, (a + d) \div SubstepQuarters)
        IN  /\ substeps' = n
            /\ biologyUpdates' = biologyUpdates + n
            /\ (tree.health > 0 /\ tree'.health > 0) => tree'.age = tree.age + n
            /\ simulationState'.physicsAccumulator = a + d - n * SubstepQuarters ]_vars

\* A call was cut by the bound and left more than a substep in the accumulator.
C1_Witness ==
  /\ substeps = maxSubsteps
  /\ simulationState.physicsAccumulator >= SubstepQuarters
  /\ tree.health > 0
  /\ tree.age >= maxSubsteps

\* C2 as stated: two runs over the same total elapsed time, split into calls
\* in any two ways, execute numbers of substeps that differ by at most 1.
C2_AnySplit ==
  (simulationState.time = twin.simulationState.time /\ simulationState.time > 0)
    => Abs(biologyUpdates - twin.biologyUpdates) <= 1

\* C2 amended: when neither run has time waiting in its accumulator that the
\* bound of 10 substeps per call kept it from running, both runs executed
\* floor(T / substepTime) substeps, whatever the split of T.
C2_SplitWithoutBacklog ==
  ( /\ simulationState.time = twin.simulationState.time
    /\ simulationState.physicsAccumulator < SubstepQuarters
    /\ twin.simulationState.physicsAccumulator < SubstepQuarters )
    => /\ biologyUpdates = twin.biologyUpdates
       /\ biologyUpdates = simulationState.time \div SubstepQuarters

\* The same elapsed time was split into one call in one run and two in the other.
C2_Witness ==
  /\ simulationState.time = twin.simulationState.time
  /\ simulationState.time > 0
  /\ simulationState.frameCount = 1
  /\ twin.simulationState.frameCount = 2
  /\ simulationState.physicsAccumulator < SubstepQuarters
  /\ twin.simulationState.physicsAccumulator < SubstepQuarters
  /\ biologyUpdates = 6

\* What the two-run properties compare of a tree.
TreeState(t) ==
  [health |-> t.health, age |-> t.age, height |-> t.height, dbh |-> t.dbh,
   crownRadius |-> t.crownRadius, crownHeight |-> t.crownHeight,
   rootDepth |-> t.rootDepth, rootSpread |-> t.rootSpread,
   biomass |-> t.biomass, deathCause |-> t.deathCause]

\* C3: two runs from the same seed whose substeps receive the same environment
\* values have the same tree state (health, size, biomass, death cause) after
\* the same number of substeps.
C3_SameSeedSameTree ==
  (biologyUpdates = twin.biologyUpdates) => TreeState(tree) = TreeState(twin.tree)

(***************************************************************************)
(* Properties of the tree                                                  *)
(***************************************************************************)
Percent(x) == 0 <= x /\ x <= 100 * Micro

\* C4: with the environment values in their documented ranges, health, vigor,
\* stressLevel, diseaseLoad, chlorophyllContent and waterContent each lie in
\* [0, 100] after any number of substeps.
C4_VitalsInRange ==
  /\ Percent(tree.health)
  /\ Percent(tree.vigor)
  /\ Percent(tree.stressLevel)
  /\ Percent(tree.diseaseLoad)
  /\ Percent(tree.chlorophyllContent)
  /\ Percent(tree.waterContent)

\* Substeps ran under stress: the health of the living tree has left 100 and
\* stress has accumulated.
C4_Witness ==
  /\ biologyUpdates >= maxSubsteps
  /\ tree.health > 0
  /\ tree.health < 100 * Micro
  /\ tree.stressLevel > 0
  /\ tree.waterContent > 0

\* C5: after initialization and any number of substeps, biomass.total equals
\* biomass.trunk + biomass.branches + biomass.leaves + biomass.roots.
C5_BiomassTotal ==
  tree.biomass.total
    = tree.biomass.trunk + tree.biomass.branches + tree.biomass.leaves + tree.biomass.roots

\* Substeps of a growing sapling have added biomass to the initial 0.5 kg.
C5_Witness ==
  /\ biologyUpdates > 0
  /\ tree.age > 0
  /\ tree.age < TicksPerDay
  /\ tree.biomass.total > initializeTree(TreeObject).biomass.total
  /\ tree.biomass.roots > initializeTree(TreeObject).biomass.roots

\* C6: the tree is dead (health <= 0) only through the mortality model, so a
\* dead tree has a death cause.
C6_DeadHasCause == (tree.health <= 0) => (tree.deathCause # "null")

(***************************************************************************)
(* Properties of death                                                     *)
(***************************************************************************)
\* The step is a call of animationLoop that ran at least one substep.
IsUpdate == IsFrame /\ Active /\ substeps' >= 1

\* The first substep of the step killed the tree with the cause Old age.
DiesOfOldAge == tree'.health <= 0 /\ tree'.deathCause = "Old age" /\ tree'.age = tree.age

\* C7 as stated: a living tree whose age is at least mortality.maxAge is dead
\* with the cause Old age after the next substep, whatever the PRNG state.
C7_OldAgeAtMaxAge ==
  [][ (IsUpdate /\ tree.health > 0 /\ tree.age >= tree.mortality.maxAge * TicksPerYear)
        => DiesOfOldAge ]_vars

\* C7 amended: the same, for a tree whose mortality model is enabled.
C7_OldAgeAtMaxAgeWhenEnabled ==
  [][ ( /\ IsUpdate
        /\ tree.health > 0
        /\ tree.mortality.enabled
        /\ tree.age >= tree.mortality.maxAge * TicksPerYear )
        => DiesOfOldAge ]_vars

\* The tree lived to its maximum age and the hard cap killed it.
C7_Witness ==
  /\ tree.mortality.enabled
  /\ tree.health <= 0
  /\ tree.deathCause = "Old age"
  /\ tree.age = tree.mortality.maxAge * TicksPerYear
  /\ substeps >= 1

\* What a substep on a dead tree must leave alone.
Biology(t, e) ==
  [age |-> t.age, daysSinceBirth |-> t.daysSinceBirth, height |-> t.height, dbh |-> t.dbh,
   crownRadius |-> t.crownRadius, crownHeight |-> t.crownHeight,
   rootDepth |-> t.rootDepth, rootSpread |-> t.rootSpread, biomass |-> t.biomass,
   health |-> t.health, deathCause |-> t.deathCause,
   dayOfYear |-> e.dayOfYear, year |-> e.year, season |-> e.season]

\* C8: the substeps of a call on a dead tree change nothing of its biology or
\* of the calendar, and a dead tree is alive again only as the sapling a reset
\* plants.
C8_DeadIsFrozen ==
  [][ /\ (IsFrame /\ tree.health <= 0) => Biology(tree', environment') = Biology(tree, environment)
      /\ (tree.health <= 0 /\ tree'.health > 0)
           => /\ ~IsFrame
              /\ tree'.age = 0
              /\ tree'.deathCause = "null"
              /\ tree'.height = TREE_INIT_HEIGHT ]_vars

\* Substeps ran on a dead tree: since the start or the last reset more
\* substeps ran than the tree, planted at age 0, has aged.
C8_Witness ==
  /\ tree.health <= 0
  /\ tree.species = "OAK"
  /\ tree.age < TicksPerDay
  /\ biologyUpdates > tree.age
  /\ substeps >= 1

C10_WinterDormancy ==
  [][ ( /\ IsUpdate
        /\ tree.health > 0
        /\ environment.season = "Winter"
        /\ environment'.season = "Winter"
        /\ tree.species \in {"OAK", "BIRCH", "MAPLE"} )
        => /\ tree'.deathCause = "null" => tree'.dormant
           /\ tree'.vigor <= tree.vigor
           /\ tree.vigor >= 100 => tree'.vigor < tree.vigor
           /\ tree'.height = tree.height
           /\ tree'.dbh = tree.dbh
           /\ tree'.rootDepth = tree.rootDepth
           /\ tree'.rootSpread = tree.rootSpread
           /\ tree'.biomass = tree.biomass ]_vars

\* A winter substep ran on a living oak at 20 degrees with full vigor left.
C10_Witness ==
  /\ environment.season = "Winter"
  /\ environment.temperature >= 5
  /\ tree.species = "OAK"
  /\ tree.health > 0
  /\ tree.dormant
  /\ tree.age > 0
  /\ tree.age < TicksPerDay
  /\ tree.vigor > 0

(***************************************************************************)
(* Properties of the calendar                                              *)
(***************************************************************************)
\* The first day of a season as updateEnvironmentTime assigns it, and the
\* number of days it lasts.
FirstDayOf(season) ==
  CASE season = "Spring" -> 0
    [] season = "Summer" -> 90
    [] season = "Autumn" -> 180
    [] OTHER -> 270

DaysOf(season) == IF season = "Winter" THEN DAYS_PER_YEAR - 270 ELSE 90

\* (dayOfYear - first day of the season) / (length of the season), as a micro
\* value rounded down to a multiple of 0.0001.
PositionInSeason(dayOfYear, season) ==
  (((dayOfYear - FirstDayOf(season) * TicksPerDay) * 10000) \div (DaysOf(season) * TicksPerDay)) * 100

\* C11: the season updateEnvironmentTime assigned and getSeasonProgress refer
\* to the same stretch of the year: the progress is the position of dayOfYear
\* within the assigned season (here to within 0.002), and it lies in [0, 1).
C11_ProgressWithinSeason ==
  /\ getSeasonProgress(environment.dayOfYear) >= 0
  /\ getSeasonProgress(environment.dayOfYear) < Micro
  /\ Abs(getSeasonProgress(environment.dayOfYear)
         - PositionInSeason(environment.dayOfYear, environment.season)) <= 2000

ResetRan ==
  /\ tree.age <= 50 * TicksPerYear
  /\ \E initDraws \in GeometryDrawCounts : Becomes(resetSimulationOf(Run, TRUE, initDraws))

\* C13: after resetSimulation has run to completion the tree is the initial
\* sapling (age 0, daysSinceBirth 0, health 100, initial height and biomass,
\* no death cause) and the calendar is in its initial state (year 0, day 0,
\* Spring).
C13_ResetRestoresTreeAndCalendar ==
  [][ ResetRan =>
        /\ tree'.age = 0
        /\ tree'.daysSinceBirth = 0
        /\ tree'.health = 100 * Micro
        /\ tree'.height = TREE_INIT_HEIGHT
        /\ tree'.biomass = initializeTree(TreeObject).biomass
        /\ tree'.deathCause = "null"
        /\ environment'.year = 0
        /\ environment'.dayOfYear = 0
        /\ environment'.season = "Spring" ]_vars

Applies(config) ==
  \E confirmed \in BOOLEAN, initDraws \in GeometryDrawCounts :
    Becomes(applyConfigOf(Run, config, confirmed, initDraws))

\* The mortality parameters and the configuration fields that set them.
MortalityFields ==
  { <<"maxAge", "max_age">>, <<"baseRatePerYear", "base_mortality_rate">>,
    <<"droughtThreshold", "drought_threshold">>, <<"heatStressTemp", "heat_stress_temp">>,
    <<"diseaseBaseRatePerYear", "disease_base_rate">>, <<"stormFrequency", "storm_frequency">> }

\* C15: whatever the configuration object holds (fields missing, not finite,
\* out of range), after applyVariablesConfigFromObject maxAge lies in
\* [1, 5000], baseRatePerYear, diseaseBaseRatePerYear and stormFrequency in
\* [0, 5], droughtThreshold in [0, 1] and heatStressTemp in [-50, 100], and a
\* field that is missing or whose value is not a finite number leaves its
\* parameter as it was.
C15_ConfigClamped ==
  [][ \A config \in ConfigInputs :
        Applies(config) =>
          LET m == tree'.mortality
          IN  /\ 1 <= m.maxAge /\ m.maxAge <= 5000
              /\ 0 <= m.baseRatePerYear /\ m.baseRatePerYear <= 5 * Micro
              /\ 0 <= m.diseaseBaseRatePerYear /\ m.diseaseBaseRatePerYear <= 5 * Micro
              /\ 0 <= m.stormFrequency /\ m.stormFrequency <= 5 * Micro
              /\ 0 <= m.droughtThreshold /\ m.droughtThreshold <= Micro
              /\ -50 <= m.heatStressTemp /\ m.heatStressTemp <= 100
              /\ \A f \in MortalityFields :
                   (f[2] \notin config.defined \/ config[f[2]].kind # "number")
                     => m[f[1]] = tree.mortality[f[1]] ]_vars

(***************************************************************************)
(* Properties of saving and restoring                                      *)
(***************************************************************************)
\* C16: importTreeData called with no snapshot, or with a snapshot whose
\* version is not '2.0', returns false and leaves the tree, the environment,
\* the health history and the PRNG state as they were.
C16_InvalidSaveRejected ==
  [][(/\ events' = events + 1
      /\ twin' = twin
      /\ imported'.called
      /\ (~imported'.given \/ imported'.version # "2.0"))
     => (/\ imported'.returned = FALSE
         /\ tree' = tree
         /\ environment' = environment
         /\ healthHistory' = healthHistory
         /\ prng' = prng)]_vars

\* A save of another version has been refused by a run that has moved on
\* from the state the save holds.
C16_Witness ==
  /\ imported.called
  /\ imported.given
  /\ imported.version = "1.0"
  /\ ~imported.returned
  /\ biologyUpdates > 0
  /\ tree.age > OldSnapshot.tree.age
  /\ prng.seed # OldSnapshot.seed

\* C17: after exportTreeData and importTreeData of what it returned, the
\* substeps that follow, under the same environment inputs, leave the tree
\* states the original run (the twin, which was not saved and restored) has.
C17_RestoredRunFollowsOriginal ==
  (imported.called /\ imported.returned) => TreeState(tree) = TreeState(twin.tree)

(***************************************************************************)
(* Properties of rendering                                                 *)
(***************************************************************************)
\* C18: renderScene has no effect on biology: a frame that runs no substep,
\* and so only renders, leaves the PRNG state and every biological field as
\* they were.
C18_RenderLeavesBiology ==
  [][(IsFrame /\ substeps' = 0)
     => (prng' = prng /\ Biology(tree', environment') = Biology(tree, environment))]_vars

(***************************************************************************)
(* Properties of aging and growth                                          *)
(***************************************************************************)
\* C19: from a living tree whose age is exactly one substep of aging below
\* mortality.maxAge (the mortality model being enabled), a single substep
\* leaves the tree dead with cause old age, whatever the PRNG state is.
C19_OldAgeOneSubstepEarly ==
  [][ ( /\ IsFrame
        /\ Active
        /\ substeps' = 1
        /\ tree.health > 0
        /\ tree.mortality.enabled
        /\ tree.age = tree.mortality.maxAge * TicksPerYear - 1 )
        => (tree'.health <= 0 /\ tree'.deathCause = "Old age") ]_vars

\* The fields physical growth and the biomass update write.
Size(t) ==
  [height |-> t.height, dbh |-> t.dbh, crownRadius |-> t.crownRadius,
   crownHeight |-> t.crownHeight, rootDepth |-> t.rootDepth, rootSpread |-> t.rootSpread,
   biomass |-> t.biomass]

\* C20: a substep changes height, dbh, crown, roots or a biomass compartment
\* only if, in that substep, netGrowthFactor > 0, health > 25 and the tree is
\* not dormant.
C20_GrowthOnlyWhenViable ==
  [][ ( /\ IsFrame
        /\ Active
        /\ substeps' = 1
        /\ Size(tree') # Size(tree) )
        => ( /\ NetGrowthFactor(tree, environment') > 0
             /\ tree'.health > 25 * Micro
             /\ ~tree'.dormant ) ]_vars

\* C21: in every season the allocation ratios updateBiomass uses for trunk,
\* branches, leaves and roots sum to exactly 1.
C21_AllocationSumsToOne ==
  LET alloc == Allocation(environment.season)
  IN  alloc.trunk + alloc.branches + alloc.leaves + alloc.roots = Micro

\* A step in which a reset has run to completion: initializeTree has made
\* the tree a sapling and the clock is back at 0.
ResetCompleted ==
  /\ ~IsFrame
  /\ tree'.age = 0
  /\ tree'.daysSinceBirth = 0
  /\ simulationState'.time = 0

\* C22: over substeps and UI actions, a completed reset apart, tree.dbh and
\* tree.height never decrease from one state to the next.
C22_SizeNeverShrinks ==
  [][ResetCompleted \/ (tree'.dbh >= tree.dbh /\ tree'.height >= tree.height)]_vars

\* The old oak has been made a birch, the reset was cancelled at the prompt,
\* and a substep has grown the tree under the lower height limit.
C22_Witness ==
  /\ tree.age > 50 * TicksPerYear
  /\ tree.species = "BIRCH"
  /\ substeps >= 1
  /\ tree.health > 25 * Micro
  /\ ~tree.dormant
  /\ tree.dbh > Elder.tree.dbh

(***************************************************************************)
(* Properties of the random numbers                                        *)
(***************************************************************************)
\* C23: the Gaussian noise randomGaussian(0, 0.3) a substep adds to health is
\* a finite number, for every PRNG state reachable from a non-negative seed.
\* With the mortality model disabled the noise is the first draw of the
\* substep, taken from the state the frame starts in.
C23_GaussianNoiseFinite ==
  [][ ( /\ IsFrame
        /\ Active
        /\ substeps' = 1
        /\ tree.health > 0
        /\ ~tree.mortality.enabled )
        => ~randomGaussian(prng).infinite ]_vars

\* C24: for every seed startSimulation and applySeed pass to initPRNG, the
\* PRNG state stays an integer in [0, 2^32), so that random() = state / 2^32
\* lies in [0, 1).
C24_StateInRange ==
  /\ ~prng.neg
  /\ prng.hi \in 0..(Limb - 1)
  /\ prng.lo \in 0..(Limb - 1)

\* C25: while tree.mortality.enabled is false, applyMortalityModel changes
\* nothing: called in any reachable state, it leaves tree.health and
\* tree.deathCause as they are and draws no value from the PRNG.
C25_DisabledModelChangesNothing ==
  ~tree.mortality.enabled =>
    /\ applyMortalityModel(tree, environment, prng).tree.health = tree.health
    /\ applyMortalityModel(tree, environment, prng).tree.deathCause = tree.deathCause
    /\ applyMortalityModel(tree, environment, prng).prng = prng

\* A living tree past its maximum age whose mortality model is switched off,
\* after a biology update: the enabled model would record its death.
C25_Witness ==
  /\ ~tree.mortality.enabled
  /\ tree.health > 0
  /\ MaxAgeReached(tree)
  /\ substeps >= 1
  /\ biologyUpdates >= 1

\* C26: tree.ringsGrown counts the whole years lived: over every frame it
\* grows by the number of multiples of 365 days that daysSinceBirth crosses in
\* the frame, and by nothing in a frame that crosses none.
C26_OneRingPerYearCrossed ==
  [][ IsFrame =>
        tree'.ringsGrown - tree.ringsGrown =
          (tree'.daysSinceBirth \div TicksPerYear) - (tree.daysSinceBirth \div TicksPerYear) ]_vars

\* C27: tree.species changes only together with a reinitialization of the
\* tree: a step that changes the species leaves a tree of age 0, so that no
\* tree with age > 0 has another species than the one it was initialized with.
C27_SpeciesChangesOnlyWithReset ==
  [][ tree'.species # tree.species =>
        /\ tree'.age = 0
        /\ tree'.daysSinceBirth = 0 ]_vars

\* C28: after any sequence of applyVariablesConfigFromObject calls the
\* senescence of the mortality model starts no later than the maximum age:
\* tree.mortality.senescenceStartAge <= tree.mortality.maxAge.
C28_SenescenceBeforeMaxAge ==
  tree.mortality.senescenceStartAge <= tree.mortality.maxAge

(***************************************************************************)
(* Properties of the multi-tree simulation                                 *)
(***************************************************************************)
\* The trees of the simulation that are dead.
DeadTrees == {i \in 1..Len(forest.simulation.trees) : ~forest.simulation.trees[i].alive}

\* The sum of stats.deathsByCause over the causes.
RECURSIVE SumOver(_, _)
SumOver(counts, causes) ==
  IF causes = {} THEN 0
  ELSE LET cause == CHOOSE c \in causes : TRUE
       IN  counts[cause] + SumOver(counts, causes \ {cause})

\* C29: after every update() of the multi-tree Simulation, stats.totalDeaths
\* is the number of trees with alive = false and the sum of
\* stats.deathsByCause over all causes, stats.aliveCount + stats.totalDeaths
\* is trees.length, and the count of a cause is the number of dead trees with
\* that cause: every tree is counted as a death exactly once.
C29_DeathsCountedOnce ==
  forest.simulation.frameCount >= 1 =>
    /\ forest.simulation.stats.totalDeaths = Cardinality(DeadTrees)
    /\ forest.simulation.stats.totalDeaths =
         SumOver(forest.simulation.stats.deathsByCause, DeathCauses)
    /\ forest.simulation.stats.aliveCount + forest.simulation.stats.totalDeaths =
         Len(forest.simulation.trees)
    /\ \A cause \in DeathCauses :
         forest.simulation.stats.deathsByCause[cause] =
           Cardinality({i \in DeadTrees : forest.simulation.trees[i].deathCause = cause})

\* Two trees that died in different updates of different causes, and at
\* least one update since the later death.
C29_Witness ==
  /\ forest.simulation.frameCount >= 2
  /\ Cardinality(DeadTrees) = 2
  /\ forest.simulation.trees[1].deathAge < forest.simulation.trees[2].deathAge
  /\ forest.simulation.trees[2].deathAge < forest.simulation.frameCount
  /\ forest.simulation.trees[1].deathCause # forest.simulation.trees[2].deathCause

\* C30: for one Simulation instance, whatever the order of Start and Stop
\* presses and pending callbacks, at most one loop callback is pending.
C30_OneCallbackPending ==
  forest.simulation.pendingFrames + forest.simulation.pendingTimers <= 1

====
